---------------------------- MODULE Spec2Model ----------------------------
(***************************************************************************)
(* A model of the swarmgo execution and orchestration engine:              *)
(*   - the turn executor            Swarm.Run, handleToolCalls,            *)
(*                                  handleToolCall, getChatCompletion      *)
(*   - the stream assembler         Swarm.StreamingResponse                *)
(*   - the workflow graph engine    Graph.ExecuteGraph, CreateRouterNode,  *)
(*                                  the task-management example graph      *)
(*   - capability-scored routing    SupervisorAgent.RouteTask              *)
(*   - the concurrent dispatcher    ConcurrentSwarm.RunConcurrent          *)
(*                                                                         *)
(* Go strings are modelled as sequences of one-character strings, so that  *)
(* strings.Contains, strings.ToLower, fmt.Sprintf and json.Unmarshal are   *)
(* computed rather than assumed.  Each component has its own variables and *)
(* its own specification; the variables of the other components stay at    *)
(* their initial values.                                                   *)
(***************************************************************************)
EXTENDS Integers, Sequences, FiniteSets, TLC

VARIABLES
    \* ---- Swarm.Run (turn executor) ----
    swarmInitialized, \* s.initialized && s.client != nil
    runPc,            \* position of the Run call
    runMaxTurns,      \* the maxTurns argument
    runModelOverride, \* the modelOverride argument
    runLastToolCalls, \* tool calls in the latest response of the Model Client
    runAgent,         \* the agent argument (after Run's mutation of Instructions)
    runMessages,      \* the messages argument
    runExecuteTools,  \* the executeTools argument
    history,          \* Run's local history
    pendingToolCalls, \* choice.Message.ToolCalls handed to handleToolCalls
    tcIndex,          \* position of handleToolCalls' range loop (1-based)
    updatedHistory,   \* handleToolCalls' local updatedHistory
    updatedAgent,     \* handleToolCalls' local updatedAgent
    toolResults,      \* handleToolCalls' local toolResults
    clientReqs,       \* requests Run sent to s.client.CreateChatCompletion
    clientErrs,       \* the errors those requests returned (NilErr on success)
    tcLog,            \* per handled tool call: what handleToolCall got and returned
    runResponse,      \* the Response Run returned
    runErr,           \* the error Run returned
    \* ---- Swarm.config ----
    cfgMaxRetries,    \* s.config.MaxRetries
    cfgStrategy,      \* s.config.RateLimitStrategy
    \* ---- Swarm.getChatCompletion ----
    gccPc,            \* position of the getChatCompletion call
    gccAttempt,       \* the loop variable attempt
    gccLastErr,       \* lastErr
    gccErrs,          \* what each s.client.CreateChatCompletion call returned
    gccBackoffs,      \* the backoffs slept, in units of s.config.RetryBackoff
    gccCancelled,     \* whether ctx is cancelled
    gccOk,            \* getChatCompletion returned a response
    gccErr,           \* the error getChatCompletion returned
    \* ---- ConcurrentSwarm.RunConcurrent ----
    rcConfigs,        \* the configs argument: name -> AgentConfig
    rcMainPc,         \* position of the RunConcurrent call
    rcWorkerPc,       \* per name: position of that config's goroutine
    rcOutcome,        \* per name: what cs.Run returned to the goroutine
    rcChan,           \* resultChan: the buffered results not yet received
    rcClosed,         \* resultChan has been closed
    rcResults,        \* the results slice
    rcReturned,       \* the slice RunConcurrent returned
    rcCancelled,      \* whether ctx is cancelled
    rcAtCancel,       \* the names whose cs.Run had returned when ctx was cancelled
    rcOrdered,        \* the orderedConfigs argument of RunConcurrentOrdered
    rcOrderedRet,     \* what RunConcurrentOrdered returned
    \* ---- Graph.ExecuteGraph ----
    egGraph,          \* the graph: nodes, edges, entry point, exit points
    egHeap,           \* the GraphState maps that exist; a state is an index
    egCur,            \* currentState
    egNode,           \* currentNodeID
    egVisited,        \* visited: per node id, how often it was entered
    egProcessed,      \* per node id, how often its Process function ran
    egPc,             \* position of the ExecuteGraph call
    egErr,            \* the error ExecuteGraph returned
    egRet,            \* the GraphState ExecuteGraph returned
    egCancelled,      \* whether ctx is cancelled
    egHooks,          \* g.eventHooks: what the hooks of each event do
    egEvents,         \* the events fired by the current call, in order
    egTrace,          \* the nodes processed by the current call, in order
    egRun,            \* 1 for the first call of ExecuteGraph, 2 for the repeated one
    egRef,            \* what the first call did, once it is repeated
    egLast,           \* the state as the last successful node.Process returned it
    \* ---- Swarm.StreamingResponse ----
    stVariant,        \* which version of StreamingResponse runs
    stPc,             \* position of the StreamingResponse call
    stRecvs,          \* the number of stream.Recv() calls so far
    stFrags,          \* choice.Message.ToolCalls of the latest stream.Recv()
    stCur,            \* currentMessage
    stProg,           \* toolCallsInProgress: call id -> name and argument buffer
    stDone,           \* processedToolCalls: the call ids marked processed
    stMsgs,           \* allMessages
    stExec,           \* the tool calls whose callback ran, in order
    stCbs,            \* the handler callbacks invoked, in order
    stStreams,        \* the number of streams created
    stErr,            \* the error StreamingResponse returned
    stCompleted,      \* the message handed to OnComplete, if any
    stLate,           \* call ids that got a fragment after being executed
    stCancelled,      \* whether ctx is cancelled
    \* ---- routers: CreateRouterNode's condition, handleSupervisorRouting ----
    rtRouter,         \* which router is evaluated
    rtDestinations,   \* the destinations map of CreateRouterNode
    rtState,          \* the GraphState's messages / the message history
    rtWorkflow,       \* the workflow's teamLeaders and teams
    rtCurrentAgent,   \* currentAgent
    rtResults,        \* what the evaluations so far returned
    \* ---- SupervisorAgent.RouteTask and Coordinate ----
    rkWorkers,        \* s.Workers: name -> worker
    rkPc,             \* position of the Coordinate call
    rkTasks,          \* the number of Coordinate calls so far
    rkDescription,    \* task.Description of the last call
    rkTaskType,       \* task.Type as set by RouteTask
    rkScores,         \* the scores RouteTask computed
    rkSelected,       \* the worker RouteTask returned
    rkErr,            \* the error of the last call
    rkHistory,        \* len(s.TaskHistory)
    rkStatuses,       \* per worker: the status each task it processed ended in
    \* ---- Swarm.handleToolCallsParallel ----
    ptCalls,          \* the toolCalls argument
    ptWorker,         \* per tool call: position of its goroutine
    ptChan,           \* resultChan: the results sent and not yet received
    ptSent,           \* the indexes of the tool calls in the order their results were sent
    ptI,              \* the loop variable i of the collecting loop
    ptUpdatedHistory, \* updatedHistory
    ptUpdatedAgent,   \* updatedAgent
    ptTransferred,    \* agentTransferred
    ptToolResults,    \* toolResults
    ptCancelled,      \* whether ctx is cancelled
    ptPc,             \* position of the handleToolCallsParallel call
    ptRet,            \* what handleToolCallsParallel returned
    \* ---- Workflow.Execute ----
    wfAgents,         \* the names of wf.agents
    wfConnections,    \* wf.connections
    wfAnswers,        \* per agent: what its Swarm.Run answers
    wfCycleHandling,  \* wf.cycleHandling
    wfHasCallback,    \* wf.cycleCallback != nil
    wfAgentStates,    \* wf.agentStates: per agent its processed_message_ids
    wfCurrentAgent,   \* wf.currentAgent
    wfCurrentStep,    \* wf.currentStep
    wfStepResults,    \* wf.stepResults
    wfRoutingLog,     \* wf.routingLog
    wfPc,             \* position of the Execute call
    wfStart,          \* the startAgent argument
    wfHistory,        \* Execute's local messageHistory
    wfVisited,        \* Execute's local visited
    wfCycleCount,     \* Execute's local cycleCount
    wfResult,         \* the WorkflowResult of the call
    wfErr,            \* the error Execute returned
    wfCallbackLog,    \* the calls of wf.cycleCallback made by the call
    wfRun,            \* 1 for the first Execute call, 2 for the second
    wfRef             \* what the first call returned, once the second is made

runVars ==
    <<swarmInitialized, runPc, runMaxTurns, runModelOverride,
      runLastToolCalls, runAgent, runMessages, runExecuteTools, history,
      pendingToolCalls, tcIndex, updatedHistory, updatedAgent, toolResults,
      clientReqs, clientErrs, tcLog, runResponse, runErr>>

cfgVars ==
    <<cfgMaxRetries, cfgStrategy>>

gccVars ==
    <<gccPc, gccAttempt, gccLastErr, gccErrs, gccBackoffs, gccCancelled,
      gccOk, gccErr>>

rcVars ==
    <<rcConfigs, rcMainPc, rcWorkerPc, rcOutcome, rcChan, rcClosed,
      rcResults, rcReturned, rcCancelled, rcAtCancel, rcOrdered, rcOrderedRet>>

egVars ==
    <<egGraph, egHeap, egCur, egNode, egVisited, egProcessed, egPc, egErr,
      egRet, egCancelled, egHooks, egEvents, egTrace, egRun, egRef, egLast>>

stVars ==
    <<stVariant, stPc, stRecvs, stFrags, stCur, stProg, stDone, stMsgs,
      stExec, stCbs, stStreams, stErr, stCompleted, stLate, stCancelled>>

rtVars ==
    <<rtRouter, rtDestinations, rtState, rtWorkflow, rtCurrentAgent, rtResults>>

rkVars ==
    <<rkWorkers, rkPc, rkTasks, rkDescription, rkTaskType, rkScores,
      rkSelected, rkErr, rkHistory, rkStatuses>>

ptVars ==
    <<ptCalls, ptWorker, ptChan, ptSent, ptI, ptUpdatedHistory,
      ptUpdatedAgent, ptTransferred, ptToolResults, ptCancelled, ptPc, ptRet>>

wfVars ==
    <<wfAgents, wfConnections, wfAnswers, wfCycleHandling, wfHasCallback,
      wfAgentStates, wfCurrentAgent, wfCurrentStep, wfStepResults,
      wfRoutingLog, wfPc, wfStart, wfHistory, wfVisited, wfCycleCount,
      wfResult, wfErr, wfCallbackLog, wfRun, wfRef>>

vars ==
    <<runVars, cfgVars, gccVars, rcVars, egVars, stVars, rtVars, rkVars,
      ptVars, wfVars>>

\* the variables the actions of each component leave alone
notRunVars ==
    <<cfgVars, gccVars, rcVars, egVars, stVars, rtVars, rkVars, ptVars, wfVars>>

notGccVars ==
    <<runVars, cfgVars, rcVars, egVars, stVars, rtVars, rkVars, ptVars, wfVars>>

notRcVars ==
    <<runVars, cfgVars, gccVars, egVars, stVars, rtVars, rkVars, ptVars,
      wfVars>>

notEgVars ==
    <<runVars, cfgVars, gccVars, rcVars, stVars, rtVars, rkVars, ptVars,
      wfVars>>

notStVars ==
    <<runVars, cfgVars, gccVars, rcVars, egVars, rtVars, rkVars, ptVars,
      wfVars>>

notRtVars ==
    <<runVars, cfgVars, gccVars, rcVars, egVars, stVars, rkVars, ptVars,
      wfVars>>

notRkVars ==
    <<runVars, cfgVars, gccVars, rcVars, egVars, stVars, rtVars, ptVars,
      wfVars>>

notWfVars ==
    <<runVars, cfgVars, gccVars, rcVars, egVars, stVars, rtVars, rkVars,
      ptVars>>

notPtVars ==
    <<runVars, cfgVars, gccVars, rcVars, egVars, stVars, rtVars, rkVars,
      wfVars>>

-----------------------------------------------------------------------------
(* Strings *)

\* strings.Contains(s, sub)
Contains(s, sub) ==
    \E i \in 0..(Len(s) - Len(sub)) : SubSeq(s, i + 1, i + Len(sub)) = sub

UpperLetters ==
    <<"A", "B", "C", "D", "E", "F", "G", "H", "I", "J", "K", "L", "M",
      "N", "O", "P", "Q", "R", "S", "T", "U", "V", "W", "X", "Y", "Z">>

LowerLetters ==
    <<"a", "b", "c", "d", "e", "f", "g", "h", "i", "j", "k", "l", "m",
      "n", "o", "p", "q", "r", "s", "t", "u", "v", "w", "x", "y", "z">>

LowerChar(c) ==
    IF \E i \in 1..Len(UpperLetters) : UpperLetters[i] = c
    THEN LowerLetters[CHOOSE i \in 1..Len(UpperLetters) : UpperLetters[i] = c]
    ELSE c

\* strings.ToLower(s)
ToLower(s) == [i \in 1..Len(s) |-> LowerChar(s[i])]

\* s[from:] of a Go slice (0-based from), as a sequence
SliceFrom(s, from) == SubSeq(s, from + 1, Len(s))

StrEmpty == <<>>

StrErrorPrefix ==
    <<"E", "r", "r", "o", "r", ":", " ">>

StrErrorTool ==
    <<"E", "r", "r", "o", "r", ":", " ", "T", "o", "o", "l", " ">>

StrNotFound ==
    <<" ", "n", "o", "t", " ", "f", "o", "u", "n", "d">>

StrErrorParsing ==
    <<"E", "r", "r", "o", "r", " ", "p", "a", "r", "s", "i", "n", "g", " ",
      "t", "o", "o", "l", " ", "c", "a", "l", "l", " ", "a", "r", "g", "u",
      "m", "e", "n", "t", "s", ":", " ">>

StrUnexpectedEnd ==
    <<"u", "n", "e", "x", "p", "e", "c", "t", "e", "d", " ", "e", "n", "d",
      " ", "o", "f", " ", "J", "S", "O", "N", " ", "i", "n", "p", "u", "t">>

StrCannotUnmarshal ==
    <<"j", "s", "o", "n", ":", " ", "c", "a", "n", "n", "o", "t", " ", "u",
      "n", "m", "a", "r", "s", "h", "a", "l", " ", "n", "u", "m", "b", "e",
      "r", " ", "i", "n", "t", "o", " ", "G", "o", " ", "v", "a", "l", "u",
      "e", " ", "o", "f", " ", "t", "y", "p", "e", " ", "m", "a", "p", "[",
      "s", "t", "r", "i", "n", "g", "]", "i", "n", "t", "e", "r", "f", "a",
      "c", "e", " ", "{", "}">>

StrInvalidCharacter ==
    <<"i", "n", "v", "a", "l", "i", "d", " ", "c", "h", "a", "r", "a", "c",
      "t", "e", "r">>

StrNilValue ==
    <<"<", "n", "i", "l", ">">>

StrChatCompletionError ==
    <<"c", "h", "a", "t", " ", "c", "o", "m", "p", "l", "e", "t", "i", "o",
      "n", " ", "e", "r", "r", "o", "r", ":", " ">>

StrAgentCannotBeNil ==
    <<"a", "g", "e", "n", "t", " ", "c", "a", "n", "n", "o", "t", " ", "b",
      "e", " ", "n", "i", "l">>

StrNoChoices ==
    <<"n", "o", " ", "c", "h", "o", "i", "c", "e", "s", " ", "i", "n", " ",
      "r", "e", "s", "p", "o", "n", "s", "e">>

-----------------------------------------------------------------------------
(* Errors: Go's error interface, nil or a value with a text *)

NilErr == [isNil |-> TRUE, text |-> StrEmpty, cause |-> StrEmpty]

\* errors.New(text)
NewError(t) == [isNil |-> FALSE, text |-> t, cause |-> StrEmpty]

\* fmt.Errorf(prefix + "%v", err): the text is kept, the chain is not
ErrorfV(prefix, err) == [isNil |-> FALSE, text |-> prefix \o err.text, cause |-> StrEmpty]

\* fmt.Errorf(prefix + "%w", err): errors.Unwrap gives err back
ErrorfW(prefix, err) == [isNil |-> FALSE, text |-> prefix \o err.text, cause |-> err.text]

-----------------------------------------------------------------------------
(* encoding/json: the texts of a small JSON subset.  A text is a sequence  *)
(* of characters over  { } : , 1 and k, where 1 is a number literal and k  *)
(* stands for a quoted key.  ParseValue returns the position after the     *)
(* value that starts at position i, 0 when the text ends inside the value  *)
(* and -1 on a character that cannot continue it.                          *)

RECURSIVE ParseValue(_, _), ParseMembers(_, _)

ParseMembers(s, i) ==
    \* at i: a key is expected
    IF i > Len(s) THEN 0
    ELSE IF s[i] # "k" THEN -1
    ELSE IF i + 1 > Len(s) THEN 0
    ELSE IF s[i + 1] # ":" THEN -1
    ELSE LET j == ParseValue(s, i + 2) IN
         IF j <= 0 THEN j
         ELSE IF j > Len(s) THEN 0
         ELSE IF s[j] = "}" THEN j + 1
         ELSE IF s[j] = "," THEN ParseMembers(s, j + 1)
         ELSE -1

ParseValue(s, i) ==
    IF i > Len(s) THEN 0
    ELSE IF s[i] = "1" THEN i + 1
    ELSE IF s[i] = "{"
         THEN IF i + 1 > Len(s) THEN 0
              ELSE IF s[i + 1] = "}" THEN i + 2
              ELSE ParseMembers(s, i + 1)
    ELSE -1

\* the outcome of json.Unmarshal([]byte(s), &args) for args map[string]interface{}
UnmarshalOutcome(s) ==
    LET j == ParseValue(s, 1) IN
    IF j = 0 THEN "truncated"
    ELSE IF j = -1 THEN "invalid"
    ELSE IF j <= Len(s) THEN "invalid"      \* characters after the top-level value
    ELSE IF s[1] = "{" THEN "object"
    ELSE "number"

\* json.Unmarshal(...) == nil
UnmarshalOK(s) == UnmarshalOutcome(s) = "object"

\* err.Error() of the json.Unmarshal error
UnmarshalErrText(s) ==
    CASE UnmarshalOutcome(s) = "truncated" -> StrUnexpectedEnd
      [] UnmarshalOutcome(s) = "number"    -> StrCannotUnmarshal
      [] OTHER                             -> StrInvalidCharacter


-----------------------------------------------------------------------------
(* Values of the data model: Result.Data, Agent, llm.Message, llm.ToolCall *)

RoleSystem == "system"
RoleUser == "user"
RoleAssistant == "assistant"
RoleFunction == "function"

\* Result.Data is an interface{}: here a string or nil
DataString(s) == [kind |-> "string", str |-> s]
DataNil == [kind |-> "nil", str |-> StrEmpty]

\* fmt.Sprintf("%v", data)
FormatV(data) == IF data.kind = "nil" THEN StrNilValue ELSE data.str

NameCalc == <<"c", "a", "l", "c">>
NameLook == <<"l", "o", "o", "k">>
NameMiss == <<"m", "i", "s", "s">>

\* An agent: every agent has a Model of its own, InstructionsFunc is nil (hasFunc = FALSE) or returns funcText.
\* Functions is the ordered list of the AgentFunction names; what a callback
\* returns is chosen when it is invoked.
MkAgent(name, instr, hasFunc, funcText, fns) ==
    [isNil |-> FALSE, Name |-> name, Model |-> <<"m", "-">> \o name,
     Instructions |-> instr,
     hasInstructionsFunc |-> hasFunc, funcText |-> funcText, Functions |-> fns]

NilAgent ==
    [isNil |-> TRUE, Name |-> StrEmpty, Model |-> StrEmpty, Instructions |-> StrEmpty,
     hasInstructionsFunc |-> FALSE, funcText |-> StrEmpty, Functions |-> <<>>]

AgentPlain == MkAgent(<<"P">>, StrEmpty, FALSE, StrEmpty, <<NameCalc, NameLook>>)
AgentInstr == MkAgent(<<"I">>, <<"b", "e", " ", "k", "i", "n", "d">>, FALSE, StrEmpty,
                      <<NameCalc, NameLook>>)
AgentDyn == MkAgent(<<"D">>, StrEmpty, TRUE, <<"d", "y", "n">>, <<NameCalc, NameLook>>)
AgentTarget == MkAgent(<<"T">>, <<"t">>, FALSE, StrEmpty, <<NameLook>>)
AgentSecond == MkAgent(<<"S">>, StrEmpty, FALSE, StrEmpty, <<NameCalc>>)

Msg(role, content, name, toolCalls) ==
    [Role |-> role, Content |-> content, Name |-> name, ToolCalls |-> toolCalls]

ToolCall(id, name, args) == [ID |-> id, Name |-> name, Arguments |-> args]

ArgsEmptyObject == <<"{", "}">>
ArgsObject == <<"{", "k", ":", "1", "}">>
ArgsTruncated == <<"{", "k", ":">>
ArgsNumber == <<"1">>

\* A Result of a tool callback
MkResult(data, err, agent) == [Data |-> data, Error |-> err, Agent |-> agent]

NoResult == MkResult(DataNil, NilErr, NilAgent)

StrOk == <<"o", "k">>
StrBoom == <<"b", "o", "o", "m">>

\* what a tool callback may return
CallbackResults ==
    { MkResult(DataString(StrOk), NilErr, NilAgent),
      MkResult(DataNil, NilErr, NilAgent),
      MkResult(DataNil, NewError(StrBoom), NilAgent),
      MkResult(DataString(StrOk), NilErr, AgentTarget),
      MkResult(DataString(StrOk), NilErr, AgentSecond) }

\* Response of Run and of handleToolCall
MkResponse(msgs, agent, results) ==
    [Messages |-> msgs, Agent |-> agent, ToolResults |-> results]

EmptyResponse == MkResponse(<<>>, NilAgent, <<>>)

-----------------------------------------------------------------------------
(* Swarm.handleToolCall *)

\* the agent's function with that name, as an index into agent.Functions (0: none)
FindFunction(agent, toolName) ==
    IF \E i \in 1..Len(agent.Functions) : agent.Functions[i] = toolName
    THEN CHOOSE i \in 1..Len(agent.Functions) :
            /\ agent.Functions[i] = toolName
            /\ \A j \in 1..(i - 1) : agent.Functions[j] # toolName
    ELSE 0

\* whether handleToolCall reaches functionFound.Function(args, contextVariables)
CallbackInvoked(toolCall, agent) ==
    /\ UnmarshalOK(toolCall.Arguments)
    /\ FindFunction(agent, toolCall.Name) # 0

\* the content of the message for the callback's result
\* a tool message that drops the callback's error and prints the payload
ResultContentNoError(result) == FormatV(result.Data)

ResultContent(result) ==
    IF ~result.Error.isNil
    THEN StrErrorPrefix \o result.Error.text
    ELSE FormatV(result.Data)

\* handleToolCall(ctx, toolCall, agent, contextVariables, debug), where result is
\* what the callback returns if it is invoked.  The returned error is always nil.
HandleToolCall(toolCall, agent, result) ==
    IF ~UnmarshalOK(toolCall.Arguments)
    THEN MkResponse(
           <<Msg(RoleFunction,
                 StrErrorParsing \o UnmarshalErrText(toolCall.Arguments),
                 toolCall.Name, <<>>)>>,
           NilAgent, <<>>)
    ELSE IF FindFunction(agent, toolCall.Name) = 0
    THEN MkResponse(
           <<Msg(RoleFunction, StrErrorTool \o toolCall.Name \o StrNotFound,
                 toolCall.Name, <<>>)>>,
           NilAgent, <<>>)
    ELSE MkResponse(
           <<Msg(RoleFunction, ResultContent(result), toolCall.Name, <<>>)>>,
           result.Agent, <<>>)

\* the error handleToolCall returns next to its response
\* a handleToolCall that returns the callback's error to handleToolCalls
HandleToolCallErrFromCallback(toolCall, agent, result) ==
    IF CallbackInvoked(toolCall, agent) THEN result.Error ELSE NilErr

HandleToolCallErr(toolCall, agent, result) == NilErr

-----------------------------------------------------------------------------
(* Swarm.Run and Swarm.handleToolCalls.  The Model Client is the           *)
(* environment: each call of s.client.CreateChatCompletion is answered by  *)
(* an error, by a response without choices, or by one assistant message.   *)

\* the largest number of tool calls in one model response
MaxToolCalls == 2

StrHello == <<"H", "e", "l", "l", "o">>
StrHi == <<"h", "i">>
StrDone == <<"d", "o", "n", "e">>
StrSys == <<"s", "y", "s">>
StrAPIError == <<"A", "P", "I", " ", "e", "r", "r", "o", "r">>

UserMsg == Msg(RoleUser, StrHello, StrEmpty, <<>>)
SystemMsg == Msg(RoleSystem, StrSys, StrEmpty, <<>>)
AssistantMsg == Msg(RoleAssistant, StrHi, StrEmpty, <<>>)

\* the histories Run is called with
InputHistories ==
    { <<>>, <<UserMsg>>, <<SystemMsg, UserMsg>>, <<UserMsg, AssistantMsg, UserMsg>> }

\* the agents Run is called with
InputAgents == { NilAgent, AgentPlain, AgentInstr, AgentDyn }

\* the tool calls a model response is made of
ModelToolCalls ==
    { ToolCall("c1", NameCalc, ArgsObject),
      ToolCall("c2", NameLook, ArgsEmptyObject),
      ToolCall("c3", NameMiss, ArgsEmptyObject),
      ToolCall("c4", NameCalc, ArgsTruncated),
      ToolCall("c5", NameMiss, ArgsNumber) }

ToolCallSeqs(n) == UNION { [1..k -> ModelToolCalls] : k \in 0..n }

ClientError(err) == [err |-> err, Choices |-> <<>>]
ClientNoChoices == [err |-> NilErr, Choices |-> <<>>]
ClientMessage(m) == [err |-> NilErr, Choices |-> <<m>>]

\* what the Model Client may answer to the initial request
InitialResponses ==
    { ClientError(NewError(StrAPIError)), ClientNoChoices }
    \cup { ClientMessage(Msg(RoleAssistant, c, StrEmpty, tcs)) :
             c \in {StrEmpty, StrHi}, tcs \in ToolCallSeqs(MaxToolCalls) }

\* what the Model Client may answer to the follow-up request
FollowUpResponses ==
    { ClientError(NewError(StrAPIError)),
      ClientNoChoices,
      ClientMessage(Msg(RoleAssistant, StrEmpty, StrEmpty, <<>>)),
      ClientMessage(Msg(RoleAssistant, StrDone, StrEmpty, <<>>)),
      ClientMessage(Msg(RoleAssistant, StrDone, StrEmpty,
                        <<ToolCall("c9", NameCalc, ArgsEmptyObject)>>)) }

\* len(resp.Choices[0].Message.ToolCalls) of a response, 0 if it has no choice
ResponseToolCalls(resp) ==
    IF resp.err.isNil /\ Len(resp.Choices) > 0
    THEN Len(resp.Choices[1].ToolCalls)
    ELSE 0

\* llm.ChatCompletionRequest: the model, the messages and the names of the
\* declared tools
Request(model, msgs, tools) == [Model |-> model, Messages |-> msgs, Tools |-> tools]

StrOverride == <<"o">>

\* the maxTurns and modelOverride arguments Run is called with
RunOptions ==
    { [maxTurns |-> 5, modelOverride |-> StrEmpty],
      [maxTurns |-> 0, modelOverride |-> StrEmpty],
      [maxTurns |-> 1, modelOverride |-> StrOverride] }

\* the Model of a request for an agent
RequestModel(agent, modelOverride) ==
    IF modelOverride # StrEmpty THEN modelOverride ELSE agent.Model

\* agent.Instructions after Run's  agent.Instructions = agent.InstructionsFunc(...)
ResolvedInstructions(agent) ==
    IF agent.hasInstructionsFunc THEN agent.funcText ELSE agent.Instructions

HasSystemMessage(msgs) == \E i \in 1..Len(msgs) : msgs[i].Role = RoleSystem

\* Run's history before the first request: the system instruction is put first
\* when the history has no system message and the instructions are not empty
InitialHistory(agent, messages) ==
    IF ~HasSystemMessage(messages) /\ ResolvedInstructions(agent) # StrEmpty
    THEN <<Msg(RoleSystem, ResolvedInstructions(agent), StrEmpty, <<>>)>> \o messages
    ELSE messages

\* the messages Run returns: history[len(messages):]
NewMessages(hist, messages) == SliceFrom(hist, Len(messages))

\* Run has not been called
RunNotCalled ==
    /\ runPc = "idle"
    /\ runMaxTurns = 0
    /\ runModelOverride = StrEmpty
    /\ runLastToolCalls = 0
    /\ runAgent = NilAgent
    /\ runMessages = <<>>
    /\ runExecuteTools = FALSE
    /\ history = <<>>
    /\ pendingToolCalls = <<>>
    /\ tcIndex = 0
    /\ updatedHistory = <<>>
    /\ updatedAgent = NilAgent
    /\ toolResults = <<>>
    /\ clientReqs = <<>>
    /\ clientErrs = <<>>
    /\ tcLog = <<>>
    /\ runResponse = EmptyResponse
    /\ runErr = NilErr

\* a Swarm made by NewSwarmWithCustomProvider or by NewSwarmWithConfig with
\* a key and a supported provider: s.client is set
RunInit ==
    /\ swarmInitialized = TRUE
    /\ RunNotCalled

\* a Swarm made by any constructor: NewSwarmWithConfig with an empty key, an
\* unsupported provider or a failing client constructor leaves s.client nil
RunAnySwarm ==
    /\ swarmInitialized \in BOOLEAN
    /\ RunNotCalled

\* Run(ctx, agent, messages, ..., maxTurns, executeTools) up to its first
\* request; s.client.CreateChatCompletion on a nil s.client is a nil
\* dereference
RunCall ==
    /\ runPc = "idle"
    /\ \E agent \in InputAgents, messages \in InputHistories, exec \in BOOLEAN,
          opts \in RunOptions :
        /\ runMessages' = messages
        /\ runExecuteTools' = exec
        /\ runMaxTurns' = opts.maxTurns
        /\ runModelOverride' = opts.modelOverride
        /\ IF agent.isNil
           THEN /\ runPc' = "done"
                /\ runErr' = NewError(StrAgentCannotBeNil)
                /\ runAgent' = agent
                /\ UNCHANGED <<history, clientReqs>>
           ELSE /\ runPc' = IF swarmInitialized THEN "initial" ELSE "panic"
                /\ runErr' = NilErr
                /\ runAgent' = [agent EXCEPT !.Instructions = ResolvedInstructions(agent)]
                /\ history' = InitialHistory(agent, messages)
                /\ clientReqs' =
                     IF swarmInitialized
                     THEN <<Request(RequestModel(agent, opts.modelOverride),
                                    InitialHistory(agent, messages), agent.Functions)>>
                     ELSE <<>>
    /\ UNCHANGED <<swarmInitialized, runLastToolCalls, pendingToolCalls, tcIndex, updatedHistory, updatedAgent,
                   toolResults, clientErrs, tcLog, runResponse>>
    /\ UNCHANGED notRunVars

\* s.client.CreateChatCompletion(ctx, req) returns; Run goes on to its return
\* or into handleToolCalls
RunInitialResponse ==
    /\ runPc = "initial"
    /\ \E resp \in InitialResponses :
        /\ clientErrs' = Append(clientErrs, resp.err)
        /\ runLastToolCalls' = ResponseToolCalls(resp)
        /\ IF ~resp.err.isNil
           THEN /\ runPc' = "done"
                /\ runErr' = ErrorfV(StrChatCompletionError, resp.err)
                /\ UNCHANGED <<history, pendingToolCalls, tcIndex, updatedHistory,
                               updatedAgent, runResponse>>
           ELSE IF Len(resp.Choices) = 0
           THEN /\ runPc' = "done"
                /\ runErr' = NewError(StrNoChoices)
                /\ UNCHANGED <<history, pendingToolCalls, tcIndex, updatedHistory,
                               updatedAgent, runResponse>>
           ELSE LET choice == resp.Choices[1]
                    hist == Append(history, choice)
                IN  /\ history' = hist
                    /\ runErr' = NilErr
                    /\ IF Len(choice.ToolCalls) > 0 /\ runExecuteTools
                       THEN /\ runPc' = "tools"
                            /\ pendingToolCalls' = choice.ToolCalls
                            /\ tcIndex' = 1
                            /\ updatedHistory' = hist
                            /\ updatedAgent' = runAgent
                            /\ UNCHANGED runResponse
                       ELSE /\ runPc' = "done"
                            /\ runResponse' =
                                 MkResponse(NewMessages(hist, runMessages), runAgent, <<>>)
                            /\ UNCHANGED <<pendingToolCalls, tcIndex, updatedHistory,
                                           updatedAgent>>
    /\ UNCHANGED <<swarmInitialized, runMaxTurns, runModelOverride>>
    /\ UNCHANGED <<runAgent, runMessages, runExecuteTools, toolResults, clientReqs, tcLog>>
    /\ UNCHANGED notRunVars

\* the Args of a ToolResult: json.Unmarshal into an interface{}, nil on error
ToolResultArgs(arguments) ==
    IF UnmarshalOutcome(arguments) \in {"object", "number"} THEN arguments ELSE StrEmpty

MkToolResult(toolCall, toolResp) ==
    [ToolName |-> toolCall.Name,
     Args |-> ToolResultArgs(toolCall.Arguments),
     Result |-> [Success |-> TRUE, Data |-> toolResp.Messages[1].Content,
                 Error |-> NilErr, Agent |-> toolResp.Agent]]

\* updatedAgent after a tool call: if toolResp.Agent != nil it replaces the
\* active agent
NextAgent(current, toolResp) ==
    IF ~toolResp.Agent.isNil THEN toolResp.Agent ELSE current

\* one iteration of handleToolCalls' loop over toolCalls
RunToolCall ==
    /\ runPc = "tools"
    /\ tcIndex <= Len(pendingToolCalls)
    /\ LET toolCall == pendingToolCalls[tcIndex]
           invoked == CallbackInvoked(toolCall, updatedAgent)
       IN \E result \in (IF invoked THEN CallbackResults ELSE {NoResult}) :
            LET toolResp == HandleToolCall(toolCall, updatedAgent, result)
                err == HandleToolCallErr(toolCall, updatedAgent, result)
            IN  /\ tcLog' = Append(tcLog,
                       [call |-> toolCall, agent |-> updatedAgent, invoked |-> invoked,
                        result |-> result, resp |-> toolResp, err |-> err])
                /\ IF ~err.isNil
                   THEN UNCHANGED <<toolResults, updatedHistory, updatedAgent>>
                   ELSE /\ toolResults' = Append(toolResults, MkToolResult(toolCall, toolResp))
                        /\ updatedHistory' =
                             Append(updatedHistory,
                                    Msg(RoleFunction, toolResp.Messages[1].Content,
                                        toolCall.Name, <<>>))
                        /\ updatedAgent' = NextAgent(updatedAgent, toolResp)
    /\ tcIndex' = tcIndex + 1
    /\ UNCHANGED <<swarmInitialized, runMaxTurns, runModelOverride, runLastToolCalls>>
    /\ UNCHANGED <<runPc, runAgent, runMessages, runExecuteTools, history,
                   pendingToolCalls, clientReqs, clientErrs, runResponse, runErr>>
    /\ UNCHANGED notRunVars

\* the Response Run builds from what handleToolCalls returned
ToolResponse(updHistory, agent, results) ==
    MkResponse(NewMessages(updHistory, runMessages), agent, results)

\* after the loop: the follow-up request is sent if a tool result was recorded
RunFollowUpRequest ==
    /\ runPc = "tools"
    /\ tcIndex > Len(pendingToolCalls)
    /\ IF Len(toolResults) > 0
       THEN /\ runPc' = "followup"
            /\ clientReqs' = Append(clientReqs,
                                    Request(RequestModel(updatedAgent, runModelOverride),
                                            updatedHistory, <<>>))
            /\ UNCHANGED runResponse
       ELSE /\ runPc' = "done"
            /\ runResponse' = ToolResponse(updatedHistory, updatedAgent, toolResults)
            /\ UNCHANGED clientReqs
    /\ UNCHANGED <<swarmInitialized, runMaxTurns, runModelOverride, runLastToolCalls>>
    /\ UNCHANGED <<runAgent, runMessages, runExecuteTools, history, pendingToolCalls,
                   tcIndex, updatedHistory, updatedAgent, toolResults, clientErrs,
                   tcLog, runErr>>
    /\ UNCHANGED notRunVars

\* updatedHistory after the follow-up response
\* a handleToolCalls that appends the follow-up message as it came
WithFollowUpMessage(updHistory, resp) ==
    IF resp.err.isNil /\ Len(resp.Choices) > 0 /\ resp.Choices[1].Content # StrEmpty
    THEN Append(updHistory, resp.Choices[1])
    ELSE updHistory

WithFollowUp(updHistory, resp) ==
    IF resp.err.isNil /\ Len(resp.Choices) > 0 /\ resp.Choices[1].Content # StrEmpty
    THEN Append(updHistory,
                Msg(resp.Choices[1].Role, resp.Choices[1].Content, StrEmpty, <<>>))
    ELSE updHistory

\* the follow-up call returns; handleToolCalls and Run return
RunFollowUpResponse ==
    /\ runPc = "followup"
    /\ \E resp \in FollowUpResponses :
        /\ clientErrs' = Append(clientErrs, resp.err)
        /\ runLastToolCalls' = ResponseToolCalls(resp)
        /\ updatedHistory' = WithFollowUp(updatedHistory, resp)
        /\ runResponse' =
             ToolResponse(WithFollowUp(updatedHistory, resp), updatedAgent, toolResults)
    /\ runPc' = "done"
    /\ UNCHANGED <<swarmInitialized, runMaxTurns, runModelOverride>>
    /\ UNCHANGED <<runAgent, runMessages, runExecuteTools, history, pendingToolCalls,
                   tcIndex, updatedAgent, toolResults, clientReqs, tcLog, runErr>>
    /\ UNCHANGED notRunVars

NextRun ==
    \/ RunCall
    \/ RunInitialResponse
    \/ RunToolCall
    \/ RunFollowUpRequest
    \/ RunFollowUpResponse


-----------------------------------------------------------------------------
(* Properties of Run and handleToolCall *)

\* Run has returned a Response (no error) for a response without tool calls
RunPlainAnswer ==
    /\ runPc = "done"
    /\ runErr.isNil
    /\ ~runAgent.isNil
    /\ Len(history) > 0
    /\ Len(history[Len(history)].ToolCalls) = 0

\* C1: when the model's response carries no tool calls, Run returns exactly
\* one new message, the assistant reply, with no input message echoed back,
\* and Response.Agent is the agent that was passed in -- for every history
\* and every agent, with or without instructions.
C1_PlainAnswerOneMessage ==
    RunPlainAnswer =>
        /\ runResponse.Messages = <<history[Len(history)]>>
        /\ runResponse.Agent = runAgent

\* a handled tool call whose name is one of the agent's functions
TcMatched(e) == FindFunction(e.agent, e.call.Name) # 0

\* C2 as stated: for a matching name the single returned message's content
\* equals the payload the callback returned, or the callback's error text;
\* for a name matching no function the error is nil and the single message's
\* content contains the name of the missing tool.
C2_ToolCallContentAsStated ==
    \A i \in 1..Len(tcLog) :
        LET e == tcLog[i] IN
        /\ Len(e.resp.Messages) = 1
        /\ TcMatched(e) =>
              /\ e.invoked
              /\ e.resp.Messages[1].Content =
                    (IF ~e.result.Error.isNil THEN e.result.Error.text
                                              ELSE FormatV(e.result.Data))
        /\ ~TcMatched(e) =>
              /\ e.err.isNil
              /\ Contains(e.resp.Messages[1].Content, e.call.Name)

\* C2 (amended): for a tool call whose arguments parse as a JSON object --
\* with a matching name the callback runs and the single message's content is
\* the payload as "%v" prints it, or "Error: " followed by the callback's
\* error text; with a name matching no function the error is nil and the
\* single message's content contains the name of the missing tool.
C2_ToolCallContent ==
    \A i \in 1..Len(tcLog) :
        LET e == tcLog[i] IN
        UnmarshalOK(e.call.Arguments) =>
            /\ Len(e.resp.Messages) = 1
            /\ TcMatched(e) =>
                  /\ e.invoked
                  /\ e.resp.Messages[1].Content =
                        (IF ~e.result.Error.isNil
                         THEN <<"E", "r", "r", "o", "r", ":", " ">> \o e.result.Error.text
                         ELSE FormatV(e.result.Data))
            /\ ~TcMatched(e) =>
                  /\ e.err.isNil
                  /\ Contains(e.resp.Messages[1].Content, e.call.Name)

\* C2 witness: a callback that returned an error and a call of an unknown
\* tool have both been handled
C2_Witness ==
    /\ \E i \in 1..Len(tcLog) : tcLog[i].invoked /\ ~tcLog[i].result.Error.isNil
    /\ \E i \in 1..Len(tcLog) :
          ~TcMatched(tcLog[i]) /\ UnmarshalOK(tcLog[i].call.Arguments)

\* Run has returned after executing the tool calls of the first response,
\* none of which handed off
RunToolsAnswer ==
    /\ runPc = "done"
    /\ runErr.isNil
    /\ Len(tcLog) > 0
    /\ \A i \in 1..Len(tcLog) : tcLog[i].resp.Agent.isNil

\* the calls handled so far that reached their callback, in handling order
InvokedCalls == SelectSeq([i \in 1..Len(tcLog) |-> tcLog[i]], LAMBDA e : e.invoked)

\* the follow-up message Run received, as a sequence of zero or one message
FollowUpText ==
    IF /\ Len(clientErrs) = 2
       /\ updatedHistory[Len(updatedHistory)].Role = RoleAssistant
       /\ Len(updatedHistory) = Len(history) + Len(tcLog) + 1
    THEN <<updatedHistory[Len(updatedHistory)]>>
    ELSE <<>>

\* C10: with k tool calls in the first response Run handles them one at a
\* time in emission order and returns the assistant message carrying the
\* calls, then the k tool-result messages in emission order, then the
\* follow-up assistant message when it has text (k + 2 messages), with
\* Response.Agent the original agent when no tool hands off.
C10_ToolOrder ==
    RunToolsAnswer =>
        LET k == Len(pendingToolCalls)
            calls == history[Len(history)]
        IN  /\ Len(tcLog) = k
            /\ \A i \in 1..k : tcLog[i].call = pendingToolCalls[i]
            /\ runResponse.Messages =
                 <<calls>>
                 \o [i \in 1..k |-> Msg(RoleFunction, tcLog[i].resp.Messages[1].Content,
                                        pendingToolCalls[i].Name, <<>>)]
                 \o FollowUpText
            /\ (FollowUpText # <<>> => Len(runResponse.Messages) = k + 2)
            /\ runResponse.Agent = runAgent

-----------------------------------------------------------------------------
(* Swarm.getChatCompletion: the retry loop around the Model Client *)

\* the largest s.config.MaxRetries a Swarm is configured with
MaxRetriesBound == 3

\* DefaultConfig().MaxRetries
DefaultMaxRetries == 3

RateLimitStrategies == {"RateLimitRetry", "RateLimitFail", "RateLimitQueue"}

StrMaxRetriesExceeded ==
    <<"m", "a", "x", " ", "r", "e", "t", "r", "i", "e", "s", " ", "e", "x",
      "c", "e", "e", "d", "e", "d", ":", " ">>

StrRateLimitExceeded ==
    <<"r", "a", "t", "e", " ", "l", "i", "m", "i", "t", " ", "e", "x", "c",
      "e", "e", "d", "e", "d", ":", " ">>

StrClientNotReady ==
    <<"L", "L", "M", " ", "c", "l", "i", "e", "n", "t", " ", "i", "s", " ",
      "n", "o", "t", " ", "i", "n", "i", "t", "i", "a", "l", "i", "z", "e",
      "d">>

StrContextCanceled ==
    <<"c", "o", "n", "t", "e", "x", "t", " ", "c", "a", "n", "c", "e", "l",
      "e", "d">>

StrRateLimit ==
    <<"r", "a", "t", "e", " ", "l", "i", "m", "i", "t">>

StrTooManyRequests ==
    <<"t", "o", "o", " ", "m", "a", "n", "y", " ", "r", "e", "q", "u", "e",
      "s", "t", "s">>

Str429 ==
    <<"4", "2", "9">>

StrInvalidAuth ==
    <<"i", "n", "v", "a", "l", "i", "d", " ", "a", "u", "t", "h">>

StrAuthentication ==
    <<"a", "u", "t", "h", "e", "n", "t", "i", "c", "a", "t", "i", "o", "n">>

StrNotFoundWord ==
    <<"n", "o", "t", " ", "f", "o", "u", "n", "d">>

StrInvalidModel ==
    <<"i", "n", "v", "a", "l", "i", "d", " ", "m", "o", "d", "e", "l">>

StrErrRateLimited ==
    <<"R", "a", "t", "e", " ", "l", "i", "m", "i", "t", " ", "r", "e", "a",
      "c", "h", "e", "d">>

StrErrStatus429 ==
    <<"s", "t", "a", "t", "u", "s", " ", "4", "2", "9">>

StrErrAuth ==
    <<"A", "u", "t", "h", "e", "n", "t", "i", "c", "a", "t", "i", "o", "n",
      " ", "f", "a", "i", "l", "e", "d">>

StrErrModel ==
    <<"m", "o", "d", "e", "l", " ", "n", "o", "t", " ", "f", "o", "u", "n",
      "d">>

\* isRateLimitError(err), err not nil
IsRateLimitError(err) ==
    \/ Contains(ToLower(err.text), StrRateLimit)
    \/ Contains(ToLower(err.text), StrTooManyRequests)
    \/ Contains(ToLower(err.text), Str429)

\* a classification that takes no error for fatal
NoErrorFatal(err) == FALSE

\* isFatalError(err), err not nil
IsFatalError(err) ==
    \/ Contains(ToLower(err.text), StrInvalidAuth)
    \/ Contains(ToLower(err.text), StrAuthentication)
    \/ Contains(ToLower(err.text), StrNotFoundWord)
    \/ Contains(ToLower(err.text), StrInvalidModel)

\* neither rate-limited nor fatal: the last branch of the retry loop
IsTransientError(err) == ~err.isNil /\ ~IsRateLimitError(err) /\ ~IsFatalError(err)

\* the errors the Model Client fails with
ClientErrorTexts ==
    { StrAPIError, StrErrRateLimited, StrErrStatus429, StrErrAuth, StrErrModel }

\* what one CreateChatCompletion(requestCtx, req) call returns: NilErr for a
\* response; a call under a cancelled context fails with the context's error
ClientAnswers(cancelled) ==
    IF cancelled THEN { NewError(StrContextCanceled) }
    ELSE { NilErr } \cup { NewError(t) : t \in ClientErrorTexts }

CfgDefault ==
    /\ cfgMaxRetries = DefaultMaxRetries
    /\ cfgStrategy = "RateLimitRetry"

CfgAny ==
    /\ cfgMaxRetries \in 0..MaxRetriesBound
    /\ cfgStrategy \in RateLimitStrategies

GccInit ==
    /\ gccPc = "idle"
    /\ gccAttempt = 0
    /\ gccLastErr = NilErr
    /\ gccErrs = <<>>
    /\ gccBackoffs = <<>>
    /\ gccCancelled = FALSE
    /\ gccOk = FALSE
    /\ gccErr = NilErr

\* the loop condition  attempt <= s.config.MaxRetries
LoopContinues(attempt) == attempt <= cfgMaxRetries

\* the error returned when the loop ends
MaxRetriesError(lastErr) == ErrorfW(StrMaxRetriesExceeded, lastErr)

\* getChatCompletion(...) up to the retry loop: the precondition checks
GccCall ==
    /\ gccPc = "idle"
    /\ \E initialized \in BOOLEAN, agentIsNil \in BOOLEAN :
         IF ~initialized
         THEN gccPc' = "done" /\ gccErr' = NewError(StrClientNotReady)
         ELSE IF agentIsNil
         THEN gccPc' = "done" /\ gccErr' = NewError(StrAgentCannotBeNil)
         ELSE IF LoopContinues(0)
         THEN gccPc' = "attempt" /\ gccErr' = NilErr
         ELSE gccPc' = "done" /\ gccErr' = MaxRetriesError(NilErr)
    /\ UNCHANGED <<gccAttempt, gccLastErr, gccErrs, gccBackoffs, gccCancelled, gccOk>>
    /\ UNCHANGED notGccVars

\* one s.client.CreateChatCompletion call of the loop and the branch taken
\* on its result
GccAttempt ==
    /\ gccPc = "attempt"
    /\ \E err \in ClientAnswers(gccCancelled) :
        /\ gccErrs' = Append(gccErrs, err)
        /\ IF err.isNil
           THEN /\ gccPc' = "done"
                /\ gccOk' = TRUE
                /\ UNCHANGED <<gccLastErr, gccErr>>
           ELSE /\ gccLastErr' = err
                /\ UNCHANGED gccOk
                /\ IF IsRateLimitError(err)
                   THEN CASE cfgStrategy = "RateLimitFail" ->
                               /\ gccPc' = "done"
                               /\ gccErr' = ErrorfW(StrRateLimitExceeded, err)
                          [] cfgStrategy = "RateLimitQueue" ->
                               /\ gccPc' = "select"
                               /\ UNCHANGED gccErr
                          [] OTHER ->
                               /\ gccPc' = "sleep"
                               /\ UNCHANGED gccErr
                   ELSE IF IsFatalError(err)
                   THEN /\ gccPc' = "done"
                        /\ gccErr' = err
                   ELSE /\ gccPc' = "sleep"
                        /\ UNCHANGED gccErr
    /\ UNCHANGED <<gccAttempt, gccBackoffs, gccCancelled>>
    /\ UNCHANGED notGccVars

\* the end of a loop iteration: attempt++ and the loop condition
GccNextIteration(backoff) ==
    /\ gccBackoffs' = Append(gccBackoffs, backoff)
    /\ gccAttempt' = gccAttempt + 1
    /\ IF LoopContinues(gccAttempt + 1)
       THEN gccPc' = "attempt" /\ UNCHANGED gccErr
       ELSE gccPc' = "done" /\ gccErr' = MaxRetriesError(gccLastErr)
    /\ UNCHANGED <<gccLastErr, gccErrs, gccCancelled, gccOk>>

\* time.Sleep(s.config.RetryBackoff * time.Duration(attempt+1)) returns
GccSleepDone ==
    /\ gccPc = "sleep"
    /\ GccNextIteration(gccAttempt + 1)
    /\ UNCHANGED notGccVars

\* RateLimitQueue: <-time.After(RetryBackoff * 1<<attempt) is taken
GccQueueWake ==
    /\ gccPc = "select"
    /\ GccNextIteration(2 ^ gccAttempt)
    /\ UNCHANGED notGccVars

\* RateLimitQueue: <-ctx.Done() is taken
GccQueueCancelled ==
    /\ gccPc = "select"
    /\ gccCancelled
    /\ gccPc' = "done"
    /\ gccErr' = NewError(StrContextCanceled)
    /\ UNCHANGED <<gccAttempt, gccLastErr, gccErrs, gccBackoffs, gccCancelled, gccOk>>
    /\ UNCHANGED notGccVars

\* the caller cancels ctx while getChatCompletion runs
GccCancel ==
    /\ gccPc \in {"attempt", "sleep", "select"}
    /\ ~gccCancelled
    /\ gccCancelled' = TRUE
    /\ UNCHANGED <<gccPc, gccAttempt, gccLastErr, gccErrs, gccBackoffs, gccOk, gccErr>>
    /\ UNCHANGED notGccVars

NextGcc ==
    \/ GccCall
    \/ GccAttempt
    \/ GccSleepDone
    \/ GccQueueWake
    \/ GccQueueCancelled
    \/ GccCancel

\* every Model Client call so far failed with a transient error
AllTransient(errs) == \A i \in 1..Len(errs) : IsTransientError(errs[i])

\* getChatCompletion alone, against a client that always fails with a
\* transient error: exactly MaxRetries + 1 calls, then the wrapped last cause
GccRetryBound ==
    /\ (AllTransient(gccErrs) /\ ~gccCancelled) => Len(gccErrs) <= cfgMaxRetries + 1
    /\ (gccPc = "done" /\ Len(gccErrs) > 0 /\ AllTransient(gccErrs) /\ ~gccCancelled) =>
          /\ Len(gccErrs) = cfgMaxRetries + 1
          /\ gccErr = ErrorfW(StrMaxRetriesExceeded, gccErrs[Len(gccErrs)])
          /\ gccErr.cause = gccErrs[Len(gccErrs)].text

\* C3: against a Model Client that fails every call with a transient error
\* the turn executor (Run) calls the client exactly MaxRetries + 1 times and
\* then fails with an error that wraps the last underlying cause.
C3_RunRetriesTransient ==
    (runPc = "done" /\ Len(clientErrs) > 0 /\ AllTransient(clientErrs)) =>
        /\ Len(clientReqs) = cfgMaxRetries + 1
        /\ ~runErr.isNil
        /\ runErr.cause = clientErrs[Len(clientErrs)].text

-----------------------------------------------------------------------------
(* ConcurrentSwarm.RunConcurrent: one goroutine per config, a buffered      *)
(* result channel, a goroutine that closes it, and the collecting loop      *)

\* the keys a configs map may have
ConfigNames == {"a", "b", "c"}

\* the agent of the config named n
ConfigAgent(n) == MkAgent(<<n>>, StrEmpty, FALSE, StrEmpty, <<>>)

\* AgentConfig: a config with a nil Agent makes Run fail on every call
ConfigsFor(n) == { [Agent |-> ConfigAgent(n)], [Agent |-> NilAgent] }

\* the configs maps RunConcurrent is called with
InputConfigs ==
    UNION { { c \in [names -> UNION { ConfigsFor(n) : n \in names }] :
                \A n \in names : c[n] \in ConfigsFor(n) } :
            names \in SUBSET ConfigNames }

\* what cs.Run(ctx, cfg.Agent, cfg.Messages, ...) returns for a config: the
\* pair (Response, error) of Swarm.Run
RunOutcomes(cfg) ==
    IF cfg.Agent.isNil
    THEN { [Response |-> EmptyResponse, Error |-> NewError(StrAgentCannotBeNil)] }
    ELSE { [Response |-> MkResponse(<<AssistantMsg>>, cfg.Agent, <<>>), Error |-> NilErr],
           [Response |-> EmptyResponse,
            Error |-> ErrorfV(StrChatCompletionError, NewError(StrAPIError))] }

ConcurrentResult(name, outcome) ==
    [AgentName |-> name, Response |-> outcome.Response, Error |-> outcome.Error]

NoOutcome == [Response |-> EmptyResponse, Error |-> NilErr]

\* the orderedConfigs argument of RunConcurrentOrdered: a list of entries
\* {Name, Config}; a name may occur more than once
OrderedEntries ==
    UNION { { [Name |-> n, Config |-> c] : c \in ConfigsFor(n) } : n \in ConfigNames }

MaxOrderedLen == Cardinality(ConfigNames)

OrderedInputs ==
    UNION { [1..k -> OrderedEntries] : k \in 0..MaxOrderedLen }

\* configs := make(map); for _, cfg := range orderedConfigs
\*     { configs[cfg.Name] = cfg.Config } : a later entry overwrites an
\* earlier one of the same name
ConfigsOf(ordered) ==
    LET names == { ordered[i].Name : i \in 1..Len(ordered) }
        last(n) == CHOOSE i \in 1..Len(ordered) :
                      /\ ordered[i].Name = n
                      /\ \A j \in 1..Len(ordered) : ordered[j].Name = n => j <= i
    IN  [n \in names |-> ordered[last(n)].Config]

\* the zero value of ConcurrentResult
ZeroResult == [AgentName |-> "", Response |-> EmptyResponse, Error |-> NilErr]

\* resultMap[name] after  for _, result := range results
\*     { resultMap[result.AgentName] = result } : the zero value when no
\* result has that name
ResultMapAt(results, name) ==
    LET having == { i \in 1..Len(results) : results[i].AgentName = name }
    IN  IF having = {} THEN ZeroResult
        ELSE results[CHOOSE i \in having : \A j \in having : j <= i]

\* what RunConcurrentOrdered returned: a list, or the index-out-of-range
\* panic of  ordered[i] = ...
NoOrderedRet == [panicked |-> FALSE, list |-> <<>>]

RcInit ==
    /\ rcConfigs \in InputConfigs
    /\ rcMainPc = "spawn"
    /\ rcWorkerPc = [n \in DOMAIN rcConfigs |-> "unborn"]
    /\ rcOutcome = [n \in DOMAIN rcConfigs |-> NoOutcome]
    /\ rcChan = <<>>
    /\ rcClosed = FALSE
    /\ rcResults = <<>>
    /\ rcReturned = <<>>
    /\ rcCancelled = FALSE
    /\ rcAtCancel = {}
    /\ rcOrdered = <<>>
    /\ rcOrderedRet = NoOrderedRet

RcIdle ==
    /\ rcConfigs = << >>
    /\ rcMainPc = "idle"
    /\ rcWorkerPc = << >>
    /\ rcOutcome = << >>
    /\ rcChan = <<>>
    /\ rcClosed = FALSE
    /\ rcResults = <<>>
    /\ rcReturned = <<>>
    /\ rcCancelled = FALSE
    /\ rcAtCancel = {}
    /\ rcOrdered = <<>>
    /\ rcOrderedRet = NoOrderedRet

\* one iteration of  for name, config := range configs : wg.Add(1); go func
RcSpawn ==
    /\ rcMainPc = "spawn"
    /\ \E n \in DOMAIN rcConfigs :
        /\ rcWorkerPc[n] = "unborn"
        /\ rcWorkerPc' = [rcWorkerPc EXCEPT ![n] = "run"]
    /\ UNCHANGED <<rcConfigs, rcAtCancel, rcOrdered, rcOrderedRet, rcMainPc,
                   rcOutcome, rcChan, rcClosed, rcResults, rcReturned,
                   rcCancelled>>
    /\ UNCHANGED notRcVars

\* the range loop ends: the closing goroutine is started and the collecting
\* loop is entered
RcSpawnDone ==
    /\ rcMainPc = "spawn"
    /\ \A n \in DOMAIN rcConfigs : rcWorkerPc[n] # "unborn"
    /\ rcMainPc' = "collect"
    /\ UNCHANGED <<rcConfigs, rcAtCancel, rcOrdered, rcOrderedRet, rcWorkerPc,
                   rcOutcome, rcChan, rcClosed, rcResults, rcReturned,
                   rcCancelled>>
    /\ UNCHANGED notRcVars

\* a worker's cs.Run returns and the worker builds its ConcurrentResult
RcRunReturns ==
    /\ \E n \in DOMAIN rcConfigs :
        /\ rcWorkerPc[n] = "run"
        /\ \E o \in RunOutcomes(rcConfigs[n]) :
            /\ rcOutcome' = [rcOutcome EXCEPT ![n] = o]
            /\ rcWorkerPc' = [rcWorkerPc EXCEPT ![n] = "select"]
    /\ UNCHANGED <<rcConfigs, rcAtCancel, rcOrdered, rcOrderedRet, rcMainPc,
                   rcChan, rcClosed, rcResults, rcReturned, rcCancelled>>
    /\ UNCHANGED notRcVars

\* a result channel with one place fewer than there are configs
CanSendShort(chan, configs) == Len(chan) < Cardinality(DOMAIN configs) - 1

\* resultChan <- result  can proceed: resultChan was made with room for
\* len(configs) results
CanSend(chan, configs) == Len(chan) < Cardinality(DOMAIN configs)

\* a worker's select takes  resultChan <- result , then the deferred
\* wg.Done()
RcSend ==
    /\ \E n \in DOMAIN rcConfigs :
        /\ rcWorkerPc[n] = "select"
        /\ CanSend(rcChan, rcConfigs)
        /\ rcChan' = Append(rcChan, ConcurrentResult(n, rcOutcome[n]))
        /\ rcWorkerPc' = [rcWorkerPc EXCEPT ![n] = "done"]
    /\ UNCHANGED <<rcConfigs, rcAtCancel, rcOrdered, rcOrderedRet, rcMainPc,
                   rcOutcome, rcClosed, rcResults, rcReturned, rcCancelled>>
    /\ UNCHANGED notRcVars

\* a worker's select takes  <-ctx.Done() : the result is appended to results
\* under the mutex, then the deferred wg.Done()
RcRecordCancelled ==
    /\ rcCancelled
    /\ \E n \in DOMAIN rcConfigs :
        /\ rcWorkerPc[n] = "select"
        /\ rcResults' = Append(rcResults, ConcurrentResult(n, rcOutcome[n]))
        /\ rcWorkerPc' = [rcWorkerPc EXCEPT ![n] = "done"]
    /\ UNCHANGED <<rcConfigs, rcAtCancel, rcOrdered, rcOrderedRet, rcMainPc,
                   rcOutcome, rcChan, rcClosed, rcReturned, rcCancelled>>
    /\ UNCHANGED notRcVars

\* the closing goroutine: wg.Wait() returns, close(resultChan)
RcClose ==
    /\ rcMainPc \in {"collect", "returned", "reordered"}
    /\ ~rcClosed
    /\ \A n \in DOMAIN rcConfigs : rcWorkerPc[n] = "done"
    /\ rcClosed' = TRUE
    /\ UNCHANGED <<rcConfigs, rcAtCancel, rcOrdered, rcOrderedRet, rcMainPc,
                   rcWorkerPc, rcOutcome, rcChan, rcResults, rcReturned,
                   rcCancelled>>
    /\ UNCHANGED notRcVars

\* the collecting loop receives a result and appends it under the mutex
RcCollect ==
    /\ rcMainPc = "collect"
    /\ Len(rcChan) > 0
    /\ rcResults' = Append(rcResults, Head(rcChan))
    /\ rcChan' = Tail(rcChan)
    /\ UNCHANGED <<rcConfigs, rcAtCancel, rcOrdered, rcOrderedRet, rcMainPc,
                   rcWorkerPc, rcOutcome, rcClosed, rcReturned, rcCancelled>>
    /\ UNCHANGED notRcVars

\* a collecting loop that returns as soon as the channel is closed, without
\* draining the results still buffered in it
RcReturnClosedNoDrain ==
    /\ rcMainPc = "collect"
    /\ rcClosed
    /\ rcMainPc' = "returned"
    /\ rcReturned' = rcResults
    /\ UNCHANGED <<rcConfigs, rcAtCancel, rcOrdered, rcOrderedRet, rcWorkerPc,
                   rcOutcome, rcChan, rcClosed, rcResults, rcCancelled>>
    /\ UNCHANGED notRcVars

\* the collecting loop finds the channel closed and drained: return results
RcReturnClosed ==
    /\ rcMainPc = "collect"
    /\ rcChan = <<>>
    /\ rcClosed
    /\ rcMainPc' = "returned"
    /\ rcReturned' = rcResults
    /\ UNCHANGED <<rcConfigs, rcAtCancel, rcOrdered, rcOrderedRet, rcWorkerPc,
                   rcOutcome, rcChan, rcClosed, rcResults, rcCancelled>>
    /\ UNCHANGED notRcVars

\* the collecting loop's select takes  <-ctx.Done() : return results
RcReturnCancelled ==
    /\ rcMainPc = "collect"
    /\ rcCancelled
    /\ rcMainPc' = "returned"
    /\ rcReturned' = rcResults
    /\ UNCHANGED <<rcConfigs, rcAtCancel, rcOrdered, rcOrderedRet, rcWorkerPc,
                   rcOutcome, rcChan, rcClosed, rcResults, rcCancelled>>
    /\ UNCHANGED notRcVars

\* the caller cancels the shared context
RcCancel ==
    /\ rcMainPc \in {"spawn", "collect"}
    /\ ~rcCancelled
    /\ rcCancelled' = TRUE
    /\ rcAtCancel' = { n \in DOMAIN rcConfigs : rcWorkerPc[n] \in {"select", "done"} }
    /\ UNCHANGED <<rcConfigs, rcOrdered, rcOrderedRet, rcMainPc, rcWorkerPc, rcOutcome, rcChan,
                   rcClosed, rcResults, rcReturned>>
    /\ UNCHANGED notRcVars

\* the number of results of the worker n in a list of results
Deliveries(list, n) ==
    Cardinality({ k \in 1..Len(list) : list[k].AgentName = n })

\* C39: in RunConcurrent every worker delivers its result exactly once,
\* through the result channel or through the cancellation path but never
\* both, and never blocks forever on the send: no name appears twice in the
\* returned list and no worker goroutine stays blocked after its agent run
\* returns, whether or not the context is cancelled.
C39_EveryWorkerDeliversOnce ==
    /\ \A n \in DOMAIN rcConfigs :
          /\ Deliveries(rcChan, n) + Deliveries(rcResults, n)
                = (IF rcWorkerPc[n] = "done" THEN 1 ELSE 0)
          /\ Deliveries(rcReturned, n) <= 1
          /\ rcWorkerPc[n] = "select" => CanSend(rcChan, rcConfigs)
    /\ Len(rcChan) + Len(rcResults) <= Cardinality(DOMAIN rcConfigs)

\* RunConcurrent has returned after a cancellation: one worker delivered
\* through the channel and was collected, another through the cancellation
\* path, and every worker is done
C39_Witness ==
    /\ rcMainPc = "returned"
    /\ rcCancelled
    /\ Len(rcReturned) = 2
    /\ rcAtCancel # DOMAIN rcConfigs
    /\ \A n \in DOMAIN rcConfigs : rcWorkerPc[n] = "done"
    /\ rcChan = <<>>

\* RunConcurrentOrdered called with the list rcOrdered
RcInitOrdered ==
    /\ rcOrdered \in OrderedInputs
    /\ rcConfigs = ConfigsOf(rcOrdered)
    /\ rcMainPc = "spawn"
    /\ rcWorkerPc = [n \in DOMAIN rcConfigs |-> "unborn"]
    /\ rcOutcome = [n \in DOMAIN rcConfigs |-> NoOutcome]
    /\ rcChan = <<>>
    /\ rcClosed = FALSE
    /\ rcResults = <<>>
    /\ rcReturned = <<>>
    /\ rcCancelled = FALSE
    /\ rcAtCancel = {}
    /\ rcOrderedRet = NoOrderedRet

\* RunConcurrentOrdered after  results := cs.RunConcurrent(ctx, configs) :
\* ordered := make([]ConcurrentResult, len(results)), then
\* ordered[i] = resultMap[cfg.Name] for i, cfg := range orderedConfigs
RcReorder ==
    /\ rcMainPc = "returned"
    /\ rcMainPc' = "reordered"
    /\ rcOrderedRet' =
          IF Len(rcOrdered) > Len(rcReturned)
          THEN [panicked |-> TRUE, list |-> <<>>]
          ELSE [panicked |-> FALSE,
                list |-> [i \in 1..Len(rcReturned) |->
                            IF i <= Len(rcOrdered)
                            THEN ResultMapAt(rcReturned, rcOrdered[i].Name)
                            ELSE ZeroResult]]
    /\ UNCHANGED <<rcConfigs, rcAtCancel, rcOrdered, rcWorkerPc, rcOutcome,
                   rcChan, rcClosed, rcResults, rcReturned, rcCancelled>>
    /\ UNCHANGED notRcVars

NextConc ==
    \/ RcSpawn
    \/ RcSpawnDone
    \/ RcRunReturns
    \/ RcSend
    \/ RcRecordCancelled
    \/ RcClose
    \/ RcCollect
    \/ RcReturnClosed
    \/ RcReturnCancelled
    \/ RcCancel

NextOrdered ==
    \/ NextConc
    \/ RcReorder

\* the results of the returned list that carry a non-nil error
ErrorResults(results) == { i \in 1..Len(results) : ~results[i].Error.isNil }

\* the invocations whose Run returned an error
FailedInvocations == { n \in DOMAIN rcConfigs : ~rcOutcome[n].Error.isNil }

\* C4: with a context that is never cancelled RunConcurrent returns exactly
\* one result per entry of the configs map, each tagged with its name and
\* carrying that invocation's own response and error, so the number of
\* results with an error is the number of invocations that failed (three
\* configs with exactly one failing give three results, exactly one with a
\* non-nil error), under every interleaving of the workers.
C4_OneResultPerConfig ==
    (rcMainPc = "returned" /\ ~rcCancelled) =>
        /\ Len(rcReturned) = Cardinality(DOMAIN rcConfigs)
        /\ \A n \in DOMAIN rcConfigs :
              \E i \in 1..Len(rcReturned) :
                  /\ rcReturned[i] = ConcurrentResult(n, rcOutcome[n])
                  /\ \A j \in 1..Len(rcReturned) :
                        rcReturned[j].AgentName = n => j = i
        /\ \A n \in DOMAIN rcConfigs :
              rcConfigs[n].Agent.isNil => ~rcOutcome[n].Error.isNil
        /\ Cardinality(ErrorResults(rcReturned)) = Cardinality(FailedInvocations)
        /\ (Cardinality(DOMAIN rcConfigs) = 3 /\ Cardinality(FailedInvocations) = 1) =>
              (Len(rcReturned) = 3 /\ Cardinality(ErrorResults(rcReturned)) = 1)

\* C4 witness: three configs, the one with a nil agent failed, the other two
\* answered, the context was never cancelled and RunConcurrent has returned
C4_Witness ==
    /\ rcMainPc = "returned"
    /\ ~rcCancelled
    /\ DOMAIN rcConfigs = ConfigNames
    /\ Cardinality(FailedInvocations) = 1
    /\ \E n \in FailedInvocations : rcConfigs[n].Agent.isNil

-----------------------------------------------------------------------------
(* Graph.ExecuteGraph: the workflow graph engine.                           *)
(* A GraphState is a Go map, so it is a reference: egHeap holds the maps    *)
(* that exist and a state is an index into it.  A node function or a        *)
(* condition that writes into the map it is given changes it for everyone   *)
(* who holds that reference; GraphState.Clone makes a new map.  Only the    *)
(* caller's initialState (reference 1) and the engine's currentState are    *)
(* held, so the heap keeps at most those two maps: the clone of a map that  *)
(* nobody holds any more takes that map's place (reference 2).              *)

\* the visit count above which ExecuteGraph reports an infinite loop
MaxVisits == 10

NoNode == ""

StandardEdge == "standard"
ConditionEdge == "condition"
FallbackEdge == "fallback"
CallbackEdge == "callback"

\* Edge{From, To, Type, Condition}; Cond names the ConditionFunc
Edge(to, type, cond) == [To |-> to, Type |-> type, Cond |-> cond]

\* the keys of a GraphState the modelled node functions and conditions use
EmptyState ==
    [next |-> "", mark |-> ""]

\* GraphState.Clone(): a new map with the same key bindings, at reference 2
Clone(heap, ref) == <<heap[1], heap[ref]>>

GraphError(kind, node) == [kind |-> kind, node |-> node]
NoGraphError == GraphError("none", NoNode)

\* the errors ExecuteGraph returns
ErrNoEntryPoint == GraphError("no entry point defined for graph", NoNode)
ErrInfiniteLoop(node) == GraphError("potential infinite loop detected at node", node)
ErrNodeNotFound(node) == GraphError("node not found", node)
ErrProcessing(node) == GraphError("error processing node", node)
ErrNoOutgoingEdges(node) == GraphError("node has no outgoing edges", node)
ErrNoValidTransition(node) == GraphError("no valid transition from node", node)
ErrContextCanceled == GraphError("context canceled", NoNode)

\* what a NodeFunc returns: the returned GraphState (a reference, 0 for nil),
\* whether the error is non-nil, whether it panicked, and the heap it leaves
NodeOutcome(heap, out, failed, panicked) ==
    [heap |-> heap, out |-> out, failed |-> failed, panicked |-> panicked]

\* the values a "choose" node writes under the key next
NextChoices(ids) == ids \cup {NoNode}

\* the node functions of the generic graphs, by kind:
\*   pass    returns the state it was given (CreateRouterNode's routerFunc)
\*   set     clones the state and marks the clone
\*   write   marks the state it was given and returns it
\*   choose  clones the state and writes the next node's id under next
\*   fail    returns a nil state and an error
\*   spoil   marks the state it was given, then returns it with an error
GenericNodeOutcomes(kind, id, ids, heap, cur) ==
    CASE kind = "pass" -> { NodeOutcome(heap, cur, FALSE, FALSE) }
      [] kind = "set" ->
            { NodeOutcome([Clone(heap, cur) EXCEPT ![2].mark = id],
                          2, FALSE, FALSE) }
      [] kind = "write" ->
            { NodeOutcome([heap EXCEPT ![cur].mark = id], cur, FALSE, FALSE) }
      [] kind = "choose" ->
            { NodeOutcome([Clone(heap, cur) EXCEPT ![2].next = n],
                          2, FALSE, FALSE) : n \in NextChoices(ids) }
      [] kind = "fail" -> { NodeOutcome(heap, 0, TRUE, FALSE) }
      [] kind = "spoil" ->
            { NodeOutcome([heap EXCEPT ![cur].mark = id], cur, TRUE, FALSE) }

\* what a ConditionFunc returns: the node id, whether the error is non-nil,
\* and the heap it leaves
CondOutcome(heap, id, failed) == [heap |-> heap, id |-> id, failed |-> failed]

\* the conditions of the generic graphs, by name:
\*   next   returns the id stored under next
\*   error  returns an error
GenericCondOutcomes(cond, heap, cur) ==
    CASE cond = "next" -> { CondOutcome(heap, heap[cur].next, FALSE) }
      [] cond = "error" -> { CondOutcome(heap, NoNode, TRUE) }

\* graphs: Nodes maps a node id to the kind of its Process function, Edges a
\* node id to its outgoing edges in declaration order; Ids are the node ids
\* a traversal of the graph can name
GraphCycle ==
    [Nodes |-> [n \in {"A", "B"} |-> IF n = "A" THEN "pass" ELSE "set"],
     Edges |-> [n \in {"A", "B"} |->
                  IF n = "A" THEN <<Edge("B", StandardEdge, "nil")>>
                             ELSE <<Edge("A", StandardEdge, "nil")>>],
     EntryPoint |-> "A", ExitPoints |-> {}, Ids |-> {"A", "B"}]

GraphRouted ==
    [Nodes |-> [n \in {"A", "B", "X"} |->
                  CASE n = "A" -> "choose" [] n = "B" -> "write" [] OTHER -> "pass"],
     Edges |-> [n \in {"A", "B", "X"} |->
                  IF n = "A" THEN <<Edge("B", ConditionEdge, "next")>>
                             ELSE <<Edge("A", StandardEdge, "nil")>>],
     EntryPoint |-> "A", ExitPoints |-> {"X"}, Ids |-> {"A", "B", "X", "Z"}]

GraphFallback ==
    [Nodes |-> [n \in {"A", "B", "C", "X"} |->
                  CASE n = "A" -> "choose" [] n = "B" -> "set"
                    [] n = "C" -> "spoil" [] OTHER -> "pass"],
     Edges |-> [n \in {"A", "B", "C"} |->
                  CASE n = "A" -> <<Edge("B", ConditionEdge, "error"),
                                    Edge("B", ConditionEdge, "nil"),
                                    Edge("C", CallbackEdge, "nil"),
                                    Edge("B", ConditionEdge, "next"),
                                    Edge("X", FallbackEdge, "nil"),
                                    Edge("B", StandardEdge, "nil")>>
                    [] n = "B" -> <<Edge("A", ConditionEdge, "next")>>
                    [] OTHER -> <<>>],
     EntryPoint |-> "A", ExitPoints |-> {"X"}, Ids |-> {"A", "B", "C", "X"}]

GraphFailing ==
    [Nodes |-> [n \in {"A", "B"} |-> IF n = "A" THEN "write" ELSE "fail"],
     Edges |-> [n \in {"A"} |-> <<Edge("B", StandardEdge, "nil")>>],
     EntryPoint |-> "A", ExitPoints |-> {}, Ids |-> {"A", "B"}]

GraphNoEdges ==
    [Nodes |-> [n \in {"A"} |-> "set"],
     Edges |-> [n \in {"A"} |-> <<>>],
     EntryPoint |-> "A", ExitPoints |-> {}, Ids |-> {"A"}]

GraphNoEntry ==
    [Nodes |-> [n \in {"A"} |-> "pass"],
     Edges |-> [n \in {"A"} |-> <<>>],
     EntryPoint |-> NoNode, ExitPoints |-> {"A"}, Ids |-> {"A"}]

\* a graph whose node functions are deterministic and whose route depends on
\* the key next of the state
GraphKeyed ==
    [Nodes |-> [n \in {"A", "B", "X"} |-> IF n = "B" THEN "set" ELSE "pass"],
     Edges |-> [n \in {"A", "B"} |->
                  IF n = "A" THEN <<Edge("A", ConditionEdge, "next"),
                                    Edge("B", FallbackEdge, "nil")>>
                             ELSE <<Edge("X", StandardEdge, "nil")>>],
     EntryPoint |-> "A", ExitPoints |-> {"X"}, Ids |-> {"A", "B", "X"}]

GenericGraphs ==
    { GraphCycle, GraphRouted, GraphFallback, GraphFailing, GraphNoEdges, GraphNoEntry }

\* the graphs whose node functions return one outcome
DeterministicGraphs ==
    { GraphCycle, GraphFailing, GraphNoEdges, GraphNoEntry, GraphKeyed }

\* the events ExecuteGraph fires: graph_start, node_enter_<id>, node_error,
\* node_exit_<id>, graph_complete
Event(kind, node) == [kind |-> kind, node |-> node]

EventKinds == {"graph_start", "node_enter", "node_error", "node_exit", "graph_complete"}

\* g.eventHooks, by what the hooks of an event do with the state they are
\* given: nothing is registered ("none"), they read it ("read"), or they
\* store a node id under the key next ("write")
NoHooks == [k \in EventKinds |-> "none"]

HookConfigs ==
    { [k \in EventKinds |-> "read"],
      [NoHooks EXCEPT !["node_exit"] = "write"],
      [NoHooks EXCEPT !["graph_start"] = "write"] }

\* the id a writing hook stores
HookTarget == "X"

\* fireEvent(event, state): the hooks get the map itself
FireEvent(hooks, kind, heap, ref) ==
    IF hooks[kind] = "write" /\ ref # 0
    THEN [heap EXCEPT ![ref].next = HookTarget]
    ELSE heap

\* what a call of ExecuteGraph did: the nodes processed, in order, and the
\* state and the error returned
Outcome(trace, state, err) == [trace |-> trace, state |-> state, err |-> err]
NoGraphOutcome == Outcome(<<>>, EmptyState, NoGraphError)

GenericNodeKinds == {"pass", "set", "write", "choose", "fail", "spoil"}

\* ---------------------------------------------------------------------------
\* The task-management example graph (examples/taskmanager).  Of a GraphState
\* it uses the keys below; messages is kept as the presence of the key and
\* the set of tools whose result message carries the text the router looks
\* for ("Task created", "assigned to", "TASK REPORT").

TaskNoTask == [present |-> FALSE, ok |-> FALSE, assigned |-> FALSE]

TaskVisitKeys == {"creator", "assigner", "tracker", "router"}

\* initialState of the example: only api_key and provider are set
TaskInitialState ==
    [messages |-> FALSE, evidence |-> {}, workflow_phase |-> "", last_node |-> "",
     node_visits |-> [k \in TaskVisitKeys |-> 0], force_exit |-> FALSE,
     var_current_task |-> TaskNoTask, var_task_report |-> FALSE,
     workflow_complete |-> FALSE]

\* agent.Functions of the three agents
TaskTools(id) ==
    CASE id = "creator" -> {"create_task"}
      [] id = "assigner" -> {"list_team_members", "assign_task"}
      [] OTHER -> {"update_task_status", "generate_report"}

\* the arguments of a tool call: an object with every property as a string,
\* the object {}, or a text that is no JSON
ToolArgs == {"complete", "empty object", "not JSON"}

Answer(kind, name, args) == [kind |-> kind, name |-> name, args |-> args]

\* what the Model Client answers an agent's request: an error, a plain text,
\* or a tool call (an error to the follow-up request after a tool call is
\* only logged by handleToolCalls and changes nothing the graph uses)
ModelAnswers(id) ==
    { Answer("error", "", ""), Answer("text", "", "") }
    \cup { Answer("tool", name, args) :
             name \in TaskTools(id) \cup {"unknown_tool"}, args \in ToolArgs }

\* what a tool callback does to the state keys: whether it panics on a
\* failed type assertion, and the keys after it
Called(panicked, state) == [panicked |-> panicked, state |-> state]

\* AgentFunction.Function(args, contextVars) of the five tools, run on the
\* context variables taken from the var_ keys of s
ToolCallback(name, args, s) ==
    CASE name = "create_task" ->
            Called(FALSE,
                   [s EXCEPT !.var_current_task =
                                 [present |-> TRUE, ok |-> args = "complete",
                                  assigned |-> FALSE],
                             !.evidence = @ \cup {"create_task"}])
      [] name = "list_team_members" -> Called(FALSE, s)
      [] name = "assign_task" ->
            IF args # "complete" THEN Called(TRUE, s)
            ELSE IF s.var_current_task.present /\ ~s.var_current_task.ok
            THEN Called(TRUE, s)
            ELSE Called(FALSE,
                   [s EXCEPT !.var_current_task.assigned = s.var_current_task.present,
                             !.evidence = @ \cup {"assign_task"}])
      [] name = "update_task_status" ->
            IF args # "complete" THEN Called(TRUE, s)
            ELSE IF s.var_current_task.present /\ ~s.var_current_task.ok
            THEN Called(TRUE, s)
            ELSE Called(FALSE, s)
      [] OTHER ->
            IF args # "complete" THEN Called(TRUE, s)
            ELSE IF ~s.var_current_task.present THEN Called(FALSE, s)
            ELSE IF ~s.var_current_task.ok THEN Called(TRUE, s)
            ELSE Called(FALSE,
                   [s EXCEPT !.var_task_report = TRUE,
                             !.evidence = @ \cup {"generate_report"}])

\* client.Run for one answer: arguments that do not parse and tools the
\* agent does not have give an error message without a callback
AgentRun(id, a, s) ==
    IF a.kind = "tool" /\ a.args # "not JSON" /\ a.name \in TaskTools(id)
    THEN ToolCallback(a.name, a.args, s)
    ELSE Called(FALSE, s)

\* processFunc of AddAgentNode
AgentNodeOutcomes(id, heap, cur) ==
    { IF a.kind = "error" THEN NodeOutcome(heap, cur, TRUE, FALSE)
      ELSE LET r == AgentRun(id, a, heap[cur])
           IN  IF r.panicked THEN NodeOutcome(heap, cur, FALSE, TRUE)
               ELSE NodeOutcome([Clone(heap, cur) EXCEPT
                                    ![2] = [r.state EXCEPT !.messages = TRUE]],
                                2, FALSE, FALSE) :
      a \in ModelAnswers(id) }

\* the node of a *_tracker id records the agent before it
TrackedAgent(id) ==
    CASE id = "creator_tracker" -> "creator"
      [] id = "assigner_tracker" -> "assigner"
      [] OTHER -> "tracker"

\* the "router" node function
RouterNode(s) ==
    LET counted == IF s.last_node # ""
                   THEN [s.node_visits EXCEPT ![s.last_node] = @ + 1]
                   ELSE s.node_visits
        visits == [counted EXCEPT !["router"] = @ + 1]
    IN  [s EXCEPT !.node_visits = visits,
                  !.force_exit = IF visits["router"] > 3 THEN TRUE ELSE @]

\* the node functions of the example, by kind
TaskNodeOutcomes(kind, id, heap, cur) ==
    CASE kind = "intake" ->
            { NodeOutcome([Clone(heap, cur) EXCEPT ![2].messages = TRUE,
                                                   ![2].workflow_phase = "creation"],
                          2, FALSE, FALSE) }
      [] kind = "agent" -> AgentNodeOutcomes(id, heap, cur)
      [] kind = "tracker" ->
            { NodeOutcome([Clone(heap, cur) EXCEPT ![2].last_node = TrackedAgent(id)],
                          2, FALSE, FALSE) }
      [] kind = "router" ->
            { NodeOutcome([Clone(heap, cur) EXCEPT ![2] = RouterNode(heap[cur])],
                          2, FALSE, FALSE) }
      [] OTHER ->
            { NodeOutcome([Clone(heap, cur) EXCEPT
                              ![2].workflow_complete = IF heap[cur].messages THEN TRUE ELSE @],
                          2, FALSE, FALSE) }

\* routerCondition(state): the destination and the state it leaves (it
\* writes workflow_phase into the map it is given)
Routed(to, state) == [to |-> to, state |-> state]

RouterCondition(s) ==
    LET phase == s.workflow_phase
        hasTask == s.var_current_task.present
        hasReport == s.var_task_report
    IN  IF s.force_exit THEN Routed("exit", s)
        ELSE IF s.messages /\ "create_task" \in s.evidence /\ ~hasTask /\ phase = "creation"
        THEN Routed("assigner", [s EXCEPT !.workflow_phase = "assignment"])
        ELSE IF s.messages /\ "assign_task" \in s.evidence /\ phase = "assignment"
        THEN Routed("tracker", [s EXCEPT !.workflow_phase = "tracking"])
        ELSE IF s.messages /\ "generate_report" \in s.evidence /\ phase = "tracking"
        THEN Routed("exit", s)
        ELSE CASE phase = "creation" ->
                    IF hasTask
                    THEN Routed("assigner", [s EXCEPT !.workflow_phase = "assignment"])
                    ELSE Routed("creator", s)
               [] phase = "assignment" ->
                    IF (hasTask /\ s.var_current_task.assigned)
                       \/ s.node_visits["assigner"] >= 2
                    THEN Routed("tracker", [s EXCEPT !.workflow_phase = "tracking"])
                    ELSE Routed("assigner", s)
               [] phase = "tracking" ->
                    IF hasReport \/ s.node_visits["tracker"] >= 2
                    THEN Routed("exit", s)
                    ELSE Routed("tracker", s)
               [] OTHER -> Routed("creator", [s EXCEPT !.workflow_phase = "creation"])

RouterConditionOutcomes(heap, cur) ==
    LET r == RouterCondition(heap[cur])
    IN  { CondOutcome([heap EXCEPT ![cur] = r.state], r.to, FALSE) }

TaskNodeIds ==
    {"intake", "creator", "assigner", "tracker", "creator_tracker",
     "assigner_tracker", "tracker_tracker", "router", "exit"}

GraphTaskManager ==
    [Nodes |-> [n \in TaskNodeIds |->
                  CASE n = "intake" -> "intake"
                    [] n \in {"creator", "assigner", "tracker"} -> "agent"
                    [] n = "router" -> "router"
                    [] n = "exit" -> "exit"
                    [] OTHER -> "tracker"],
     Edges |-> [n \in TaskNodeIds \ {"exit"} |->
                  CASE n = "intake" -> <<Edge("creator", StandardEdge, "nil")>>
                    [] n = "creator" -> <<Edge("creator_tracker", StandardEdge, "nil")>>
                    [] n = "assigner" -> <<Edge("assigner_tracker", StandardEdge, "nil")>>
                    [] n = "tracker" -> <<Edge("tracker_tracker", StandardEdge, "nil")>>
                    [] n = "router" ->
                          <<Edge("creator", ConditionEdge, "routerCondition"),
                            Edge("assigner", ConditionEdge, "routerCondition"),
                            Edge("tracker", ConditionEdge, "routerCondition"),
                            Edge("exit", ConditionEdge, "routerCondition")>>
                    [] OTHER -> <<Edge("router", StandardEdge, "nil")>>],
     EntryPoint |-> "intake", ExitPoints |-> {"exit"}, Ids |-> TaskNodeIds]

\* the initialState arguments ExecuteGraph is called with
InitialStates(g) ==
    IF g = GraphTaskManager THEN {TaskInitialState} ELSE {EmptyState}

\* node.Process(ctx, currentState)
NodeOutcomes(g, id, heap, cur) ==
    IF g.Nodes[id] \in GenericNodeKinds
    THEN GenericNodeOutcomes(g.Nodes[id], id, g.Ids, heap, cur)
    ELSE TaskNodeOutcomes(g.Nodes[id], id, heap, cur)

\* edge.Condition(currentState)
CondOutcomes(cond, heap, cur) ==
    IF cond = "routerCondition"
    THEN RouterConditionOutcomes(heap, cur)
    ELSE GenericCondOutcomes(cond, heap, cur)

\* the result of the edge loop: nextNodeID and the heap the conditions leave
Resolved(next, heap) == [next |-> next, heap |-> heap]

RECURSIVE ResolveEdges(_, _, _, _)
\* an edge loop that gives up after the first edge it evaluates
ResolveFirstEdgeOnly(edges, i, heap, cur) ==
    IF i > Len(edges) THEN { Resolved(NoNode, heap) }
    ELSE LET edge == edges[i] IN
         CASE edge.Type \in {StandardEdge, FallbackEdge} -> { Resolved(edge.To, heap) }
           [] edge.Type = ConditionEdge /\ edge.Cond # "nil" ->
                 { Resolved(IF o.failed THEN NoNode ELSE o.id, o.heap) :
                   o \in CondOutcomes(edge.Cond, heap, cur) }
           [] OTHER -> { Resolved(NoNode, heap) }

\* the loop  for _, edge := range edges  from the i-th edge on, nextNodeID
\* still being empty
ResolveEdges(edges, i, heap, cur) ==
    IF i > Len(edges) THEN { Resolved(NoNode, heap) }
    ELSE LET edge == edges[i] IN
         CASE edge.Type = StandardEdge ->
                 IF edge.To # NoNode THEN { Resolved(edge.To, heap) }
                 ELSE ResolveEdges(edges, i + 1, heap, cur)
           [] edge.Type = ConditionEdge ->
                 IF edge.Cond = "nil" THEN ResolveEdges(edges, i + 1, heap, cur)
                 ELSE UNION { IF ~o.failed /\ o.id # NoNode
                              THEN { Resolved(o.id, o.heap) }
                              ELSE ResolveEdges(edges, i + 1, o.heap, cur) :
                              o \in CondOutcomes(edge.Cond, heap, cur) }
           [] edge.Type = FallbackEdge ->
                 IF edge.To # NoNode THEN { Resolved(edge.To, heap) }
                 ELSE ResolveEdges(edges, i + 1, heap, cur)
           [] OTHER -> ResolveEdges(edges, i + 1, heap, cur)

\* a threshold check that lets one more visit pass
ExceedsThresholdLate(count) == count > MaxVisits + 1

\* a threshold check that already fires at the limit
ExceedsThresholdAtLimit(count) == count >= MaxVisits

\* visited[currentNodeID] > 10
ExceedsThreshold(count) == count > MaxVisits

EgIdle ==
    /\ egGraph = GraphNoEntry
    /\ egHeap = <<EmptyState>>
    /\ egCur = 1
    /\ egNode = NoNode
    /\ egVisited = [n \in GraphNoEntry.Ids |-> 0]
    /\ egProcessed = [n \in GraphNoEntry.Ids |-> 0]
    /\ egPc = "off"
    /\ egErr = NoGraphError
    /\ egRet = 0
    /\ egCancelled = FALSE
    /\ egHooks = NoHooks
    /\ egEvents = <<>>
    /\ egTrace = <<>>
    /\ egRun = 1
    /\ egRef = NoGraphOutcome
    /\ egLast = EmptyState

EgInitFor(graphs) ==
    /\ egGraph \in graphs
    /\ egHeap \in { <<s>> : s \in InitialStates(egGraph) }
    /\ egCur = 1
    /\ egNode = NoNode
    /\ egVisited = [n \in egGraph.Ids |-> 0]
    /\ egProcessed = [n \in egGraph.Ids |-> 0]
    /\ egPc = "idle"
    /\ egErr = NoGraphError
    /\ egRet = 0
    /\ egCancelled = FALSE
    /\ egHooks = NoHooks
    /\ egEvents = <<>>
    /\ egTrace = <<>>
    /\ egRun = 1
    /\ egRef = NoGraphOutcome
    /\ egLast = egHeap[1]

EgInit == EgInitFor(GenericGraphs)

\* the graphs of the calls that are repeated with hooks registered
EgInitHooks == EgInitFor(DeterministicGraphs)

\* the example's call of ExecuteGraph
EgInitTask == EgInitFor({GraphTaskManager})

\* case <-ctx.Done() of the select at the head of the loop
\* a loop head that never looks at the context
ContextNeverDone(cancelled) == FALSE

ContextDone(cancelled) == cancelled

\* the loop over g.ExitPoints
\* an engine for which no node is an exit point
NeverExitPoint(g, id) == FALSE

IsExitPoint(g, id) == id \in g.ExitPoints

\* ExecuteGraph returns (state, err)
EgReturn(ref, err) ==
    /\ egPc' = "done"
    /\ egRet' = ref
    /\ egErr' = err

\* ExecuteGraph(ctx, initialState) up to the loop
EgStart ==
    /\ egPc = "idle"
    /\ IF egGraph.EntryPoint = NoNode
       THEN /\ EgReturn(1, ErrNoEntryPoint)
            /\ UNCHANGED <<egNode, egHeap, egEvents>>
       ELSE /\ egPc' = "loop"
            /\ egNode' = egGraph.EntryPoint
            /\ egHeap' = FireEvent(egHooks, "graph_start", egHeap, egCur)
            /\ egEvents' = Append(egEvents, Event("graph_start", NoNode))
            /\ UNCHANGED <<egRet, egErr>>
    /\ UNCHANGED <<egGraph, egCur, egVisited, egProcessed, egCancelled, egHooks,
                   egTrace, egRun, egRef, egLast>>
    /\ UNCHANGED notEgVars

\* the head of a loop iteration: the cancellation check, the visit counter,
\* the node lookup and the node_enter event
EgEnter ==
    /\ egPc = "loop"
    /\ IF ContextDone(egCancelled)
       THEN /\ EgReturn(egCur, ErrContextCanceled)
            /\ UNCHANGED <<egVisited, egHeap, egEvents>>
       ELSE /\ egVisited' = [egVisited EXCEPT ![egNode] = @ + 1]
            /\ IF ExceedsThreshold(egVisited[egNode] + 1)
               THEN /\ EgReturn(egCur, ErrInfiniteLoop(egNode))
                    /\ UNCHANGED <<egHeap, egEvents>>
               ELSE IF egNode \notin DOMAIN egGraph.Nodes
               THEN /\ EgReturn(egCur, ErrNodeNotFound(egNode))
                    /\ UNCHANGED <<egHeap, egEvents>>
               ELSE /\ egPc' = "process"
                    /\ egHeap' = FireEvent(egHooks, "node_enter", egHeap, egCur)
                    /\ egEvents' = Append(egEvents, Event("node_enter", egNode))
                    /\ UNCHANGED <<egRet, egErr>>
    /\ UNCHANGED <<egGraph, egCur, egNode, egProcessed, egCancelled, egHooks,
                   egTrace, egRun, egRef, egLast>>
    /\ UNCHANGED notEgVars

\* node.Process returns; the node_error or node_exit event, the exit-point
\* check with the graph_complete event, and the choice of the next node
EgProcess ==
    /\ egPc = "process"
    /\ egProcessed' = [egProcessed EXCEPT ![egNode] = @ + 1]
    /\ egTrace' = Append(egTrace, egNode)
    /\ \E o \in NodeOutcomes(egGraph, egNode, egHeap, egCur) :
        IF o.panicked
        THEN /\ egPc' = "panic"
             /\ egHeap' = o.heap
             /\ UNCHANGED <<egCur, egNode, egRet, egErr, egEvents, egLast>>
        ELSE IF o.failed
        THEN /\ EgReturn(egCur, ErrProcessing(egNode))
             /\ egHeap' = FireEvent(egHooks, "node_error", o.heap, egCur)
             /\ egEvents' = Append(egEvents, Event("node_error", NoNode))
             /\ UNCHANGED <<egCur, egNode, egLast>>
        ELSE LET exited == FireEvent(egHooks, "node_exit", o.heap, o.out)
                 exit == Event("node_exit", egNode)
             IN
             /\ egCur' = o.out
             /\ egLast' = o.heap[o.out]
             /\ IF IsExitPoint(egGraph, egNode)
                THEN /\ EgReturn(o.out, NoGraphError)
                     /\ egHeap' = FireEvent(egHooks, "graph_complete", exited, o.out)
                     /\ egEvents' = egEvents \o <<exit, Event("graph_complete", NoNode)>>
                     /\ UNCHANGED egNode
                ELSE IF egNode \notin DOMAIN egGraph.Edges
                        \/ Len(egGraph.Edges[egNode]) = 0
                THEN /\ EgReturn(o.out, ErrNoOutgoingEdges(egNode))
                     /\ egHeap' = exited
                     /\ egEvents' = Append(egEvents, exit)
                     /\ UNCHANGED egNode
                ELSE \E r \in ResolveEdges(egGraph.Edges[egNode], 1, exited, o.out) :
                     /\ egHeap' = r.heap
                     /\ egEvents' = Append(egEvents, exit)
                     /\ IF r.next = NoNode
                        THEN /\ EgReturn(o.out, ErrNoValidTransition(egNode))
                             /\ UNCHANGED egNode
                        ELSE /\ egNode' = r.next
                             /\ egPc' = "loop"
                             /\ UNCHANGED <<egRet, egErr>>
    /\ UNCHANGED <<egGraph, egVisited, egCancelled, egHooks, egRun, egRef>>
    /\ UNCHANGED notEgVars

\* the caller, after a first call on a graph without hooks has returned,
\* registers hooks with AddEventHook and calls ExecuteGraph again with an
\* initialState equal to the first one
EgAddEventHook ==
    /\ egPc = "done"
    /\ egRun = 1
    /\ egRef' = Outcome(egTrace, egHeap[egRet], egErr)
    /\ egRun' = 2
    /\ \E hooks \in HookConfigs : egHooks' = hooks
    /\ egHeap' \in { <<st>> : st \in InitialStates(egGraph) }
    /\ egLast' = egHeap'[1]
    /\ egCur' = 1
    /\ egNode' = NoNode
    /\ egVisited' = [n \in egGraph.Ids |-> 0]
    /\ egProcessed' = [n \in egGraph.Ids |-> 0]
    /\ egPc' = "idle"
    /\ egErr' = NoGraphError
    /\ egRet' = 0
    /\ egEvents' = <<>>
    /\ egTrace' = <<>>
    /\ UNCHANGED <<egGraph, egCancelled>>
    /\ UNCHANGED notEgVars

\* the caller cancels ctx while ExecuteGraph runs
EgCancel ==
    /\ egPc \in {"loop", "process"}
    /\ ~egCancelled
    /\ egCancelled' = TRUE
    /\ UNCHANGED <<egGraph, egHeap, egCur, egNode, egVisited, egProcessed, egPc,
                   egErr, egRet, egHooks, egEvents, egTrace, egRun, egRef,
                   egLast>>
    /\ UNCHANGED notEgVars

NextGraph ==
    \/ EgStart
    \/ EgEnter
    \/ EgProcess
    \/ EgCancel

\* two calls of ExecuteGraph under a context that is never cancelled, the
\* second with hooks registered
NextHooks ==
    \/ EgStart
    \/ EgEnter
    \/ EgProcess
    \/ EgAddEventHook

\* the loop of ExecuteGraph has been left: ExecuteGraph has returned, or a
\* node function has panicked
GraphEnded == egPc \in {"done", "panic"}

\* C36: ExecuteGraph always terminates when every node function and router
\* returns: on any graph, whatever the routers answer, it processes at most
\* 10 x (number of nodes) nodes before returning either success or an error.
C36_TerminatesWithinTenPerNode ==
    /\ <>GraphEnded
    /\ [](Len(egTrace) <= MaxVisits * Cardinality(DOMAIN egGraph.Nodes))

\* ExecuteGraph has returned after processing 10 x (number of nodes) nodes
C36_Witness ==
    /\ egPc = "done"
    /\ Cardinality(DOMAIN egGraph.Nodes) > 1
    /\ Len(egTrace) = MaxVisits * Cardinality(DOMAIN egGraph.Nodes)

\* ExecuteGraph has returned the infinite-loop error
LoopErrorRaised == egPc = "done" /\ egErr.kind = ErrInfiniteLoop(NoNode).kind

\* C5: ExecuteGraph fails with the infinite-loop error exactly when some
\* node is entered for the 11th time: every node has then been processed at
\* most 10 times, and no infinite-loop error is raised while every node's
\* visit count is at most 10 (for example on the cycle A -> B -> A).
C5_LoopErrorAtEleventhEntry ==
    /\ LoopErrorRaised <=> \E n \in egGraph.Ids : egVisited[n] = 11
    /\ LoopErrorRaised => egVisited[egErr.node] = 11
    /\ \A n \in egGraph.Ids : egVisited[n] <= 11 /\ egProcessed[n] <= 10
    /\ (\A n \in egGraph.Ids : egVisited[n] <= 10) => ~LoopErrorRaised

\* C5 witness: on the cycle A -> B -> A the error is raised at A's 11th
\* entry, after A and B have each been processed 10 times
C5_Witness ==
    /\ egGraph = GraphCycle
    /\ LoopErrorRaised
    /\ egErr.node = "A"
    /\ egVisited = [n \in {"A", "B"} |-> IF n = "A" THEN 11 ELSE 10]
    /\ egProcessed = [n \in {"A", "B"} |-> 10]

\* the run has ended the way the example expects: ExecuteGraph returned the
\* exit node's state without an error
TaskCompleted ==
    /\ egPc = "done"
    /\ egErr = NoGraphError
    /\ egNode = "exit"
    /\ egHeap[egRet].workflow_complete

\* whatever the agents answer, short of a panic: the router is entered at
\* most four times, no node more than four times, and a run that returns
\* without an error has completed
TaskCompletesUnlessPanic ==
    /\ \A n \in egGraph.Ids : egVisited[n] <= 4
    /\ ~LoopErrorRaised
    /\ (egPc = "done" /\ egErr = NoGraphError) => TaskCompleted

\* C9: every run of the task-management example graph in which no node
\* returns an error terminates successfully at the exit node with
\* workflow_complete = true in the final state, whatever the agent nodes
\* answer, and never reaches the engine's infinite-loop threshold: the run
\* never dies in a node, no node is entered more than 10 times, and a run
\* that has returned without an error has completed.
C9_TaskWorkflowCompletes ==
    /\ egPc # "panic"
    /\ \A n \in egGraph.Ids : egVisited[n] <= MaxVisits
    /\ ~LoopErrorRaised
    /\ (egPc = "done" /\ egErr = NoGraphError) => TaskCompleted

-----------------------------------------------------------------------------
(* Swarm.StreamingResponse: the stream assembler, in its two versions       *)
(* (the older one without the empty-id check and the "stream closed"        *)
(* restart, and the latest one)                                             *)

\* the number of stream.Recv() calls of one StreamingResponse call
MaxRecvs == 3

StreamVariants == {"older", "latest"}

\* the functions of the streaming agent
StreamAgent == MkAgent(<<"S">>, StrEmpty, FALSE, StrEmpty, <<NameCalc, NameLook>>)

\* a tool-call fragment of a chunk
Fragment(id, name, args) == [ID |-> id, Name |-> name, Arguments |-> args]

FragmentIds == {"", "c1", "c2"}

\* the name and argument parts fragments carry: an announcement with a name
\* and no arguments, pieces of an argument text, and complete calls
FragmentParts ==
    { <<NameCalc, <<>> >>, <<StrEmpty, <<"{">> >>, <<StrEmpty, <<"}">> >>,
      <<NameCalc, ArgsEmptyObject>>, <<NameMiss, ArgsEmptyObject>>,
      <<StrEmpty, ArgsEmptyObject>> }

Fragments == { Fragment(id, p[1], p[2]) : id \in FragmentIds, p \in FragmentParts }

\* what stream.Recv() returns: an error, or a response with no choices, with
\* content, or with tool-call fragments (one, or the same one twice)
Chunk(content, frags) == [kind |-> "chunk", Content |-> content, ToolCalls |-> frags]
RecvError(kind) == [kind |-> kind, Content |-> StrEmpty, ToolCalls |-> <<>>]

RecvResults(cancelled) ==
    IF cancelled THEN { RecvError("error") }
    ELSE { RecvError("EOF"), RecvError("stream closed"), RecvError("error"),
           RecvError("no choices"), Chunk(<<"t">>, <<>>) }
         \cup { Chunk(StrEmpty, <<f>>) : f \in Fragments }
         \cup { Chunk(<<"t">>, <<f, f>>) : f \in { g \in Fragments : g.Arguments = ArgsEmptyObject } }

\* what a tool callback returns to the assembler
StreamCallbackResults ==
    { MkResult(DataString(StrOk), NilErr, NilAgent),
      MkResult(DataNil, NewError(StrBoom), NilAgent) }

\* how closing the stream and creating a new one ends
NewStreamResults == {"ok", "close failed", "create failed"}

\* the assembler's locals while a chunk is handled
EmptyCurrent == [Content |-> StrEmpty, ToolCalls |-> <<>>]

\* a processedToolCalls map that is never consulted
NeverProcessed(id, processed) == FALSE

\* processedToolCalls[id]
AlreadyProcessed(id, processed) == id \in processed

\* json.Unmarshal of the accumulated argument buffer into a map succeeds
\* an assembler that takes every non-empty buffer for complete
AnyBuffer(buffer) == TRUE

CompleteJSON(buffer) == UnmarshalOK(buffer)

\* the first function of the agent with that name (0 when there is none)
StreamFindFunction(name) == FindFunction(StreamAgent, name)

\* createNewStream() after a tool call, and what follows it in the caller
AfterToolCall(variant, S, ns) ==
    CASE ns = "ok" ->
            [S EXCEPT !.streams = @ + 1, !.cur = EmptyCurrent]
      [] ns = "close failed" /\ variant = "latest" ->
            [S EXCEPT !.cbs = @ \o <<"OnError", "OnError">>, !.halted = TRUE,
                      !.err = "failed to close stream"]
      [] ns = "close failed" /\ variant = "older" ->
            [S EXCEPT !.streams = @ + 1, !.cur = EmptyCurrent]
      [] ns = "create failed" /\ variant = "latest" ->
            [S EXCEPT !.cbs = @ \o <<"OnError", "OnError">>, !.halted = TRUE,
                      !.err = "failed to create stream"]
      [] OTHER ->
            [S EXCEPT !.cbs = Append(@, "OnError"), !.halted = TRUE,
                      !.err = "failed to create stream"]

\* the body of  for _, toolCall := range choice.Message.ToolCalls  in the
\* latest version
HandleFragmentLatest(S, f, res, ns) ==
    IF f.ID = "" THEN S
    ELSE IF AlreadyProcessed(f.ID, S.done) THEN S
    ELSE
    LET opened == IF f.ID \in DOMAIN S.prog THEN S.prog[f.ID]
                  ELSE [Name |-> f.Name, Arguments |-> <<>>]
        named == IF f.Name # StrEmpty /\ opened.Name = StrEmpty
                 THEN [opened EXCEPT !.Name = f.Name] ELSE opened
        call == [named EXCEPT !.Arguments = @ \o f.Arguments]
        prog == [id \in DOMAIN S.prog \cup {f.ID} |->
                    IF id = f.ID THEN call ELSE S.prog[id]]
        S1 == [S EXCEPT !.prog = prog]
    IN  IF f.Arguments = <<>> \/ ~CompleteJSON(call.Arguments)
           \/ AlreadyProcessed(f.ID, S.done)
        THEN S1
        ELSE IF StreamFindFunction(call.Name) = 0
        THEN [S1 EXCEPT !.cbs = Append(@, "OnError")]
        ELSE LET tc == ToolCall(f.ID, call.Name, call.Arguments)
                 cur == [S.cur EXCEPT !.ToolCalls = Append(@, tc)]
                 S2 == [S1 EXCEPT
                          !.exec = Append(@, tc),
                          !.done = @ \cup {f.ID},
                          !.prog = [id \in DOMAIN prog \ {f.ID} |-> prog[id]],
                          !.cur = cur,
                          !.cbs = Append(@, "OnToolCall"),
                          !.msgs = @ \o <<Msg(RoleAssistant, cur.Content, StreamAgent.Name,
                                              cur.ToolCalls),
                                          Msg(RoleFunction, ResultContent(res),
                                              call.Name, <<>>)>>]
             IN  AfterToolCall("latest", S2, ns)

\* llm.Role(inProgress.Function.Name) for the name of an agent function
RoleNamed(name) == IF name = NameCalc THEN "calc" ELSE "look"

\* the same loop body in the older version
HandleFragmentOlder(S, f, res, ns) ==
    IF AlreadyProcessed(f.ID, S.done) THEN S
    ELSE
    LET opened == IF f.ID \in DOMAIN S.prog THEN S.prog[f.ID]
                  ELSE [Name |-> f.Name, Arguments |-> <<>>]
        call == [opened EXCEPT !.Arguments = @ \o f.Arguments]
        prog == [id \in DOMAIN S.prog \cup {f.ID} |->
                    IF id = f.ID THEN call ELSE S.prog[id]]
        S1 == [S EXCEPT !.prog = prog]
    IN  IF call.Name = StrEmpty \/ call.Arguments = <<>> \/ ~CompleteJSON(call.Arguments)
        THEN S1
        ELSE LET tc == ToolCall(f.ID, call.Name, call.Arguments)
                 cur == [S.cur EXCEPT !.ToolCalls = Append(@, tc)]
                 S2 == [S1 EXCEPT !.done = @ \cup {f.ID},
                                  !.cur = cur,
                                  !.cbs = Append(@, "OnToolCall")]
             IN  IF StreamFindFunction(call.Name) = 0
                 THEN [S2 EXCEPT !.cbs = Append(@, "OnError")]
                 ELSE LET S3 == [S2 EXCEPT
                                   !.exec = Append(@, tc),
                                   !.msgs = @ \o <<Msg(RoleAssistant, cur.Content,
                                                       StreamAgent.Name, cur.ToolCalls),
                                                   Msg(RoleNamed(call.Name),
                                                       ResultContent(res),
                                                       call.Name, <<>>)>>]
                          S4 == AfterToolCall("older", S3, ns)
                      IN  IF S4.halted THEN S4
                          ELSE [S4 EXCEPT !.prog = [id \in DOMAIN prog \ {f.ID} |-> prog[id]]]

RECURSIVE HandleFragments(_, _, _, _, _, _)
\* the loop over the tool calls of one chunk, from the i-th on; it ends
\* early when StreamingResponse returns
HandleFragments(variant, S, frags, i, res, ns) ==
    IF i > Len(frags) \/ S.halted THEN S
    ELSE HandleFragments(variant,
                         IF variant = "latest"
                         THEN HandleFragmentLatest(S, frags[i], res, ns)
                         ELSE HandleFragmentOlder(S, frags[i], res, ns),
                         frags, i + 1, res, ns)

\* the assembler's locals as one record
Locals ==
    [cur |-> stCur, prog |-> stProg, done |-> stDone, msgs |-> stMsgs,
     exec |-> stExec, cbs |-> stCbs, streams |-> stStreams, halted |-> FALSE,
     err |-> "nil"]

\* the call ids of the tool calls executed so far
ExecutedIds(exec) == { exec[i].ID : i \in 1..Len(exec) }

\* the ids of the fragments of a chunk that arrive when their call has
\* already been executed
LateIds(variant, S, frags, res, ns) ==
    { frags[i].ID : i \in { j \in 1..Len(frags) :
          frags[j].ID \in ExecutedIds(
              HandleFragments(variant, S, SubSeq(frags, 1, j - 1), 1, res, ns).exec) } }

\* the locals after the content of a chunk has been handled
WithContent(S, r) ==
    IF r.Content # StrEmpty
    THEN [S EXCEPT !.cur.Content = @ \o r.Content, !.cbs = Append(@, "OnToken")]
    ELSE S

\* a chunk on which a tool callback runs.  Only there is a callback result
\* returned and, after it, the stream replaced; on every other chunk neither
\* is drawn.
Executes(r) ==
    /\ r.kind = "chunk"
    /\ HandleFragments(stVariant, WithContent(Locals, r), r.ToolCalls, 1,
                       MkResult(DataString(StrOk), NilErr, NilAgent), "ok").exec # stExec

CallbackResultsFor(r) ==
    IF Executes(r) THEN StreamCallbackResults
    ELSE { MkResult(DataString(StrOk), NilErr, NilAgent) }

NewStreamResultsFor(r) ==
    IF Executes(r) \/ r.kind = "stream closed" THEN NewStreamResults ELSE {"ok"}

StIdle ==
    /\ stVariant = "latest"
    /\ stPc = "off"
    /\ stRecvs = 0
    /\ stFrags = <<>>
    /\ stCur = EmptyCurrent
    /\ stProg = << >>
    /\ stDone = {}
    /\ stMsgs = <<>>
    /\ stExec = <<>>
    /\ stCbs = <<>>
    /\ stStreams = 0
    /\ stErr = "nil"
    /\ stCompleted = <<>>
    /\ stLate = {}
    /\ stCancelled = FALSE

StInit ==
    /\ stVariant \in StreamVariants
    /\ stPc = "idle"
    /\ stRecvs = 0
    /\ stFrags = <<>>
    /\ stCur = EmptyCurrent
    /\ stProg = << >>
    /\ stDone = {}
    /\ stMsgs = <<>>
    /\ stExec = <<>>
    /\ stCbs = <<>>
    /\ stStreams = 0
    /\ stErr = "nil"
    /\ stCompleted = <<>>
    /\ stLate = {}
    /\ stCancelled = FALSE

\* a call of the latest version of StreamingResponse
StInitLatest ==
    /\ StInit
    /\ stVariant = "latest"

\* the locals are written back; StreamingResponse returns if S.halted
StStore(S) ==
    /\ stCur' = S.cur
    /\ stProg' = S.prog
    /\ stDone' = S.done
    /\ stMsgs' = S.msgs
    /\ stExec' = S.exec
    /\ stCbs' = S.cbs
    /\ stStreams' = S.streams
    /\ stErr' = S.err
    /\ stPc' = IF S.halted THEN "done" ELSE "loop"

\* StreamingResponse(ctx, agent, messages, ...) up to its loop
StCall ==
    /\ stPc = "idle"
    /\ \E created \in BOOLEAN :
        IF created
        THEN StStore([Locals EXCEPT !.streams = 1, !.cbs = <<"OnStart">>,
                                    !.msgs = <<SystemMsg, UserMsg>>])
        ELSE StStore([Locals EXCEPT !.cbs = <<"OnError">>, !.halted = TRUE,
                                    !.err = "failed to create stream"])
    /\ UNCHANGED <<stVariant, stRecvs, stFrags, stCompleted, stLate, stCancelled>>
    /\ UNCHANGED notStVars

\* the latest version's  case <-ctx.Done()  at the head of the loop
StContextDone ==
    /\ stPc = "loop"
    /\ stVariant = "latest"
    /\ stCancelled
    /\ StStore([Locals EXCEPT !.cbs = Append(@, "OnError"), !.halted = TRUE,
                              !.err = "context canceled"])
    /\ UNCHANGED <<stVariant, stRecvs, stFrags, stCompleted, stLate, stCancelled>>
    /\ UNCHANGED notStVars

\* a return of nil at the end of the stream that tells the handler nothing
OnEOFSilent(S) == [S EXCEPT !.halted = TRUE]

\* stream.Recv() answers EOF: handler.OnComplete(currentMessage); return nil
OnEOF(S) == [S EXCEPT !.cbs = Append(@, "OnComplete"), !.halted = TRUE]

\* one loop iteration: stream.Recv() and everything done with its result
StRecv ==
    /\ stPc = "loop"
    /\ stRecvs < MaxRecvs
    /\ ~(stVariant = "latest" /\ stCancelled)
    /\ stRecvs' = stRecvs + 1
    /\ \E r \in RecvResults(stCancelled) :
       \E res \in CallbackResultsFor(r), ns \in NewStreamResultsFor(r) :
        /\ stFrags' = r.ToolCalls
        /\ CASE r.kind = "EOF" ->
                   /\ StStore(OnEOF(Locals))
                   /\ stCompleted' = <<stCur>>
                   /\ UNCHANGED stLate
             [] r.kind = "stream closed" /\ stVariant = "latest" ->
                   /\ StStore(CASE ns = "ok" -> [Locals EXCEPT !.streams = @ + 1]
                                [] ns = "close failed" ->
                                      [Locals EXCEPT !.cbs = Append(@, "OnError"),
                                                     !.halted = TRUE,
                                                     !.err = "failed to close stream"]
                                [] OTHER ->
                                      [Locals EXCEPT !.cbs = Append(@, "OnError"),
                                                     !.halted = TRUE,
                                                     !.err = "failed to create stream"])
                   /\ UNCHANGED <<stCompleted, stLate>>
             [] r.kind = "no choices" ->
                   /\ StStore(Locals)
                   /\ UNCHANGED <<stCompleted, stLate>>
             [] r.kind = "chunk" ->
                   LET S0 == WithContent(Locals, r)
                   IN  /\ StStore(HandleFragments(stVariant, S0, r.ToolCalls, 1, res, ns))
                       /\ stLate' = stLate \cup LateIds(stVariant, S0, r.ToolCalls, res, ns)
                       /\ UNCHANGED stCompleted
             [] OTHER ->
                   /\ StStore([Locals EXCEPT !.cbs = Append(@, "OnError"),
                                             !.halted = TRUE,
                                             !.err = "error receiving from stream"])
                   /\ UNCHANGED <<stCompleted, stLate>>
    /\ UNCHANGED <<stVariant, stCancelled>>
    /\ UNCHANGED notStVars

\* the caller cancels ctx while StreamingResponse runs
StCancel ==
    /\ stPc = "loop"
    /\ ~stCancelled
    /\ stCancelled' = TRUE
    /\ UNCHANGED <<stVariant, stPc, stRecvs, stFrags, stCur, stProg, stDone, stMsgs, stExec,
                   stCbs, stStreams, stErr, stCompleted, stLate>>
    /\ UNCHANGED notStVars

NextStream ==
    \/ StCall
    \/ StContextDone
    \/ StRecv
    \/ StCancel

\* C6: once the accumulated arguments of a call id have parsed as complete
\* JSON and its tool has been executed, any later fragment carrying the same
\* call id (a repeat of the complete fragment included, before or after the
\* stream is restarted) is ignored: the tool callback runs exactly once per
\* call id, the id stays marked as processed and no argument buffer is kept
\* or reopened for it.
C6_ExecutedOncePerCallId ==
    /\ \A i, j \in 1..Len(stExec) : stExec[i].ID = stExec[j].ID => i = j
    /\ \A i \in 1..Len(stExec) :
          /\ UnmarshalOK(stExec[i].Arguments)
          /\ stExec[i].ID \in stDone
          /\ stPc = "loop" => stExec[i].ID \notin DOMAIN stProg

\* C6 witness: a call was executed, the stream was restarted, and a later
\* fragment with the same call id arrived
C6_Witness ==
    /\ stPc = "loop"
    /\ stStreams > 1
    /\ \E i \in 1..Len(stExec) : stExec[i].ID \in stLate

-----------------------------------------------------------------------------
(* Routers: the condition built by CreateRouterNode and                     *)
(* Workflow.handleSupervisorRouting.  Both range over a Go map; the order   *)
(* of a map iteration is not specified and differs from one range statement *)
(* to the next, so every range draws its own order.                         *)

MaxEvaluations == 2

\* the orders in which a range statement can visit the keys of a map
Orders(keys) ==
    { o \in [1..Cardinality(keys) -> keys] :
        \A i, j \in 1..Cardinality(keys) : o[i] = o[j] => i = j }

\* what a router answers: a destination, or none, or an error
Routing(to, ok, err) == [to |-> to, ok |-> ok, err |-> err]

KwCode == <<"c", "o", "d", "e">>
KwCodeUpper == <<"C", "O", "D", "E">>
KwTest == <<"t", "e", "s", "t">>
KwReview == <<"r", "e", "v", "i", "e", "w">>

\* the destinations maps handed to CreateRouterNode
DestinationMaps ==
    { << >>,
      [k \in {KwCode} |-> "coder"],
      [k \in {KwCode, KwTest} |-> IF k = KwCode THEN "coder" ELSE "tester"],
      [k \in {KwCodeUpper, KwTest, KwReview} |->
          CASE k = KwCodeUpper -> "coder"
            [] k = KwTest -> "tester"
            [] OTHER -> "reviewer"] }

\* the contents of latest messages
RouterContents ==
    {<<"w", "r", "i", "t", "e", " ", "c", "o", "d", "e">>,
     <<"C", "o", "d", "e", " ", "a", "n", "d", " ", "t", "e", "s", "t", " ", "i", "t">>,
     <<"h", "e", "l", "l", "o">>,
     <<"p", "l", "e", "a", "s", "e", " ", "r", "e", "v", "i", "e", "w">>,
     <<"r", "e", "s", "e", "a", "r", "c", "h", " ", "a", "n", "d", " ", "w", "r", "i", "t", "e">>,
     <<"f", "i", "n", "d", " ", "i", "t">>}

\* state[MessageKey]: absent, or a list of message contents
RouterStates ==
    {[present |-> FALSE, messages |-> <<>>], [present |-> TRUE, messages |-> <<>>]}
    \cup { [present |-> TRUE, messages |-> <<c>>] : c \in RouterContents }
    \cup { [present |-> TRUE, messages |-> <<<<"h", "i">>, c>>] : c \in RouterContents }

\* the first key, in the order of the range, whose keyword the content holds
FirstMatch(order, content) ==
    LET hits == { i \in 1..Len(order) : Contains(content, ToLower(order[i])) }
    IN  IF hits = {} THEN 0 ELSE CHOOSE i \in hits : \A j \in hits : i <= j

\* routeCondition(state) of CreateRouterNode; matchOrder and defaultOrder
\* are the orders of its two range statements
RouteCondition(destinations, state, matchOrder, defaultOrder) ==
    IF ~state.present THEN Routing("", FALSE, "no messages in state")
    ELSE IF Len(state.messages) = 0 THEN Routing("", FALSE, "no messages to route")
    ELSE LET content == ToLower(state.messages[Len(state.messages)])
             m == FirstMatch(matchOrder, content)
         IN  IF m # 0 THEN Routing(destinations[matchOrder[m]], TRUE, "nil")
             ELSE IF Len(defaultOrder) > 0
                  THEN Routing(destinations[defaultOrder[1]], TRUE, "nil")
                  ELSE Routing("", FALSE, "no destination found")

\* the task classification patterns of handleSupervisorRouting: a pattern
\* (?i)(a|b|...) matches a text that holds one of its alternatives, whatever
\* the case of the letters
TaskTeams == {"research", "document", "analysis", "developer"}

PatternWords(team) ==
    CASE team = "research" ->
    {<<"r", "e", "s", "e", "a", "r", "c", "h">>,
     <<"s", "e", "a", "r", "c", "h">>,
     <<"f", "i", "n", "d">>,
     <<"l", "o", "o", "k", " ", "u", "p">>,
     <<"s", "c", "r", "a", "p", "e">>,
     <<"c", "o", "l", "l", "e", "c", "t">>}
      [] team = "document" ->
    {<<"w", "r", "i", "t", "e">>,
     <<"d", "r", "a", "f", "t">>,
     <<"c", "o", "m", "p", "o", "s", "e">>,
     <<"c", "r", "e", "a", "t", "e">>,
     <<"d", "o", "c", "u", "m", "e", "n", "t">>,
     <<"c", "h", "a", "r", "t">>,
     <<"g", "e", "n", "e", "r", "a", "t", "e">>}
      [] team = "analysis" ->
    {<<"a", "n", "a", "l", "y", "z", "e">>,
     <<"e", "v", "a", "l", "u", "a", "t", "e">>,
     <<"a", "s", "s", "e", "s", "s">>,
     <<"i", "n", "t", "e", "r", "p", "r", "e", "t">>,
     <<"r", "e", "v", "i", "e", "w">>,
     <<"i", "n", "v", "e", "s", "t", "i", "g", "a", "t", "e">>}
      [] OTHER ->
    {<<"c", "o", "d", "e">>,
     <<"d", "e", "v", "e", "l", "o", "p">>,
     <<"i", "m", "p", "l", "e", "m", "e", "n", "t">>,
     <<"p", "r", "o", "g", "r", "a", "m">>,
     <<"d", "e", "b", "u", "g">>,
     <<"t", "e", "s", "t">>,
     <<"b", "u", "i", "l", "d">>}

MatchString(team, content) ==
    \E w \in PatternWords(team) : Contains(ToLower(content), w)

\* a workflow's teamLeaders (team -> agent name) and teams (team -> number
\* of members; the first member of team t is called t-1)
Workflows ==
    { [teamLeaders |-> l, teams |-> m] :
        l \in { [t \in {"supervisor"} |-> "boss"],
                [t \in {"supervisor", "research", "document"} |->
                    CASE t = "supervisor" -> "boss"
                      [] t = "research" -> "rita" [] OTHER -> "dan"],
                [t \in {"supervisor", "research", "developer", "analysis", "document"} |->
                    CASE t = "supervisor" -> "boss"
                      [] t = "research" -> "rita"
                      [] t = "developer" -> "dev"
                      [] t = "analysis" -> "ann" [] OTHER -> "dan"] },
        m \in { [t \in TaskTeams |-> 0],
                [t \in TaskTeams |-> IF t \in {"developer", "analysis"} THEN 1 ELSE 0] } }

FirstMember(team) ==
    CASE team = "research" -> "research-1"
      [] team = "document" -> "document-1"
      [] team = "analysis" -> "analysis-1"
      [] OTHER -> "developer-1"

\* whether the body of the pattern loop returns for this team
TeamAnswers(wf, team, content) ==
    /\ MatchString(team, content)
    /\ \/ team \in DOMAIN wf.teamLeaders
       \/ wf.teams[team] > 0

\* handleSupervisorRouting(currentAgent, messageHistory); order is the order
\* of the range over taskTeams
HandleSupervisorRouting(wf, currentAgent, messageHistory, order) ==
    LET content == ToLower(messageHistory[Len(messageHistory)])
        hits == { i \in 1..Len(order) : TeamAnswers(wf, order[i], content) }
    IN  IF currentAgent # wf.teamLeaders["supervisor"]
        THEN Routing(wf.teamLeaders["supervisor"], TRUE, "nil")
        ELSE IF hits = {} THEN Routing("", FALSE, "nil")
        ELSE LET team == order[CHOOSE i \in hits : \A j \in hits : i <= j]
             IN  IF team \in DOMAIN wf.teamLeaders
                 THEN Routing(wf.teamLeaders[team], TRUE, "nil")
                 ELSE Routing(FirstMember(team), TRUE, "nil")

RtIdle ==
    /\ rtRouter = "off"
    /\ rtDestinations = << >>
    /\ rtState = [present |-> FALSE, messages |-> <<>>]
    /\ rtWorkflow = [teamLeaders |-> << >>, teams |-> << >>]
    /\ rtCurrentAgent = ""
    /\ rtResults = <<>>

\* a router and a GraphState (a message history) to evaluate it on
RtInit ==
    /\ rtRouter \in {"condition", "supervisor"}
    /\ rtResults = <<>>
    /\ IF rtRouter = "condition"
       THEN /\ rtDestinations \in DestinationMaps
            /\ rtState \in RouterStates
            /\ rtWorkflow = [teamLeaders |-> << >>, teams |-> << >>]
            /\ rtCurrentAgent = ""
       ELSE /\ rtDestinations = << >>
            /\ rtState \in { s \in RouterStates : Len(s.messages) > 0 }
            /\ rtWorkflow \in Workflows
            /\ rtCurrentAgent \in {"boss", "rita"}

\* the condition of a router node is evaluated on the state
RtRouteCondition ==
    /\ rtRouter = "condition"
    /\ Len(rtResults) < MaxEvaluations
    /\ \E matchOrder \in Orders(DOMAIN rtDestinations),
          defaultOrder \in Orders(DOMAIN rtDestinations) :
          rtResults' = Append(rtResults,
              RouteCondition(rtDestinations, rtState, matchOrder, defaultOrder))
    /\ UNCHANGED <<rtRouter, rtDestinations, rtState, rtWorkflow, rtCurrentAgent>>
    /\ UNCHANGED notRtVars

\* the supervisor workflow routes on the message history
RtSupervisorRouting ==
    /\ rtRouter = "supervisor"
    /\ Len(rtResults) < MaxEvaluations
    /\ \E order \in Orders(TaskTeams) :
          rtResults' = Append(rtResults,
              HandleSupervisorRouting(rtWorkflow, rtCurrentAgent, rtState.messages, order))
    /\ UNCHANGED <<rtRouter, rtDestinations, rtState, rtWorkflow, rtCurrentAgent>>
    /\ UNCHANGED notRtVars

NextRouter ==
    \/ RtRouteCondition
    \/ RtSupervisorRouting

\* C7: a router evaluated twice on states with identical content returns the
\* same destination; the condition built by CreateRouterNode picks the same
\* destination for the same latest message, also when that message matches
\* several destination keywords or none of them.
C7_RouterDeterministic ==
    \A i, j \in 1..Len(rtResults) : rtResults[i] = rtResults[j]

-----------------------------------------------------------------------------
(* SupervisorAgent.RouteTask and Coordinate: capability-scored routing.     *)
(* Scores are float64 sums of multiples of 0.3 and 0.2 and of a success     *)
(* rate; they are kept here as exact integers in units of 1/600, in which   *)
(* every success rate with at most six tasks is a whole number.  Rounding   *)
(* in float64 is below 1e-15 and can only matter between scores that are    *)
(* equal here, and equal scores are ranked either way here.                 *)

MaxTasks == 2

\* the weights 0.3, 0.2, 0.2 and 0.3 of calculateWorkerScore, times 600
CapabilityWeight == 180
PerformanceWeight == 120
AvailabilityWeight == 120
RoleWeight == 180

DescSorting == <<"i", "m", "p", "l", "e", "m", "e", "n", "t", " ", "a", " ", "s", "o", "r", "t", "i", "n", "g", " ", "a", "l", "g", "o", "r", "i", "t", "h", "m">>
DescMarket == <<"r", "e", "s", "e", "a", "r", "c", "h", " ", "t", "h", "e", " ", "m", "a", "r", "k", "e", "t">>
DescHello == <<"h", "e", "l", "l", "o">>

TaskDescriptions == {DescSorting, DescMarket, DescHello}

TaskTypes == {"research", "coding", "writing", "analysis"}

\* the task type patterns of analyzeTaskType
Patterns(taskType) ==
    CASE taskType = "research" ->
    <<<<"r", "e", "s", "e", "a", "r", "c", "h">>,
      <<"i", "n", "v", "e", "s", "t", "i", "g", "a", "t", "e">>,
      <<"a", "n", "a", "l", "y", "z", "e">>,
      <<"s", "t", "u", "d", "y">>,
      <<"f", "i", "n", "d">>,
      <<"s", "e", "a", "r", "c", "h">>>>
      [] taskType = "coding" ->
    <<<<"c", "o", "d", "e">>,
      <<"p", "r", "o", "g", "r", "a", "m">>,
      <<"f", "u", "n", "c", "t", "i", "o", "n">>,
      <<"a", "l", "g", "o", "r", "i", "t", "h", "m">>,
      <<"i", "m", "p", "l", "e", "m", "e", "n", "t">>,
      <<"w", "r", "i", "t", "e", " ", "a", " ", "p", "r", "o", "g", "r", "a", "m">>>>
      [] taskType = "writing" ->
    <<<<"w", "r", "i", "t", "e">>,
      <<"c", "o", "m", "p", "o", "s", "e">>,
      <<"c", "r", "e", "a", "t", "e">>,
      <<"d", "r", "a", "f", "t">>,
      <<"a", "u", "t", "h", "o", "r">>>>
      [] OTHER ->
    <<<<"a", "n", "a", "l", "y", "z", "e">>,
      <<"e", "v", "a", "l", "u", "a", "t", "e">>,
      <<"a", "s", "s", "e", "s", "s">>,
      <<"r", "e", "v", "i", "e", "w">>>>

\* matches[taskType]
MatchCount(taskType, description) ==
    Cardinality({ i \in 1..Len(Patterns(taskType)) :
                    Contains(ToLower(description), Patterns(taskType)[i]) })

\* analyzeTaskType(description): the types it can return.  The type with
\* the most matches is found by a range over the map matches, which keeps
\* the first type of the iteration that has the largest count.
AnalyzeTaskType(description) ==
    LET best == { ty \in TaskTypes :
                    /\ MatchCount(ty, description) > 0
                    /\ \A other \in TaskTypes :
                          MatchCount(other, description) <= MatchCount(ty, description) }
    IN  IF best = {} THEN {"general"} ELSE best

\* hasMatchingKeywords(text, keywords)
HasMatchingKeywords(text, keywords) ==
    \E i \in 1..Len(keywords) : Contains(ToLower(text), ToLower(keywords[i]))

WorkerCapability(keywords, priority) == [Keywords |-> keywords, Priority |-> priority]

\* greatest common divisor of two naturals
RECURSIVE Gcd(_, _)
Gcd(a, b) == IF b = 0 THEN a ELSE Gcd(b, a % b)

\* float64(a) / float64(b) for small naturals, b > 0: the quotient as a
\* fraction in lowest terms (two such quotients are the same float64 exactly
\* when the fractions are equal)
FloatQuotient(a, b) == <<a \div Gcd(a, b), b \div Gcd(a, b)>>

\* the float64 zero value
FloatZero == <<0, 1>>

\* NewWorkerAgent: Performance has only LastUpdateTime set
WorkerAgent(role, capabilities, available) ==
    [Role |-> role, Capabilities |-> capabilities, IsAvailable |-> available,
     TasksCompleted |-> 0, TasksFailed |-> 0, SuccessRate |-> FloatZero]

TaskStatusInProgress == "in_progress"
TaskStatusCompleted == "completed"
TaskStatusFailed == "failed"

\* an update that computes the rate before it counts the task
UpdatePerformanceStale(w, status) ==
    LET success == status = TaskStatusCompleted
        total == w.TasksCompleted + w.TasksFailed
    IN  [w EXCEPT !.TasksCompleted = IF success THEN @ + 1 ELSE @,
                  !.TasksFailed = IF success THEN @ ELSE @ + 1,
                  !.SuccessRate = IF total = 0 THEN FloatZero
                                  ELSE FloatQuotient(w.TasksCompleted, total)]

\* WorkerAgent.updatePerformance(task, duration), for a task in the status
\* given
UpdatePerformance(w, status) ==
    LET success == status = TaskStatusCompleted
        completed == IF success THEN w.TasksCompleted + 1 ELSE w.TasksCompleted
        failed == IF success THEN w.TasksFailed ELSE w.TasksFailed + 1
    IN  [w EXCEPT !.TasksCompleted = completed,
                  !.TasksFailed = failed,
                  !.SuccessRate = FloatQuotient(completed, completed + failed)]

\* the status ProcessTask leaves the task in when its deferred function
\* runs, by the way swarm.Run ended
StatusAfterRun(outcome) ==
    CASE outcome = "nil" -> TaskStatusCompleted
      [] outcome = "error" -> TaskStatusFailed
      [] OTHER -> TaskStatusInProgress

\* the capability part of a score: the loop over worker.Capabilities
RECURSIVE CapabilityScore(_, _, _)
CapabilityScore(capabilities, i, description) ==
    IF i > Len(capabilities) THEN 0
    ELSE (IF HasMatchingKeywords(description, capabilities[i].Keywords)
          THEN capabilities[i].Priority * CapabilityWeight ELSE 0)
         + CapabilityScore(capabilities, i + 1, description)

\* a score without the term for the task type
NoRoleScore(worker, taskType) == 0

\* the term of a score for a worker whose role is the task type
RoleScore(worker, taskType) == IF worker.Role = taskType THEN RoleWeight ELSE 0

\* calculateWorkerScore(worker, task)
CalculateWorkerScore(worker, description, taskType) ==
    CapabilityScore(worker.Capabilities, 1, description)
    + (IF worker.TasksCompleted > 0
       THEN (worker.TasksCompleted * PerformanceWeight)
                \div (worker.TasksCompleted + worker.TasksFailed)
       ELSE 0)
    + (IF worker.IsAvailable THEN AvailabilityWeight ELSE 0)
    + RoleScore(worker, taskType)

\* the scores slice of RouteTask: the available workers with their scores
Scores(workers, description, taskType) ==
    [n \in { m \in DOMAIN workers : workers[m].IsAvailable } |->
        CalculateWorkerScore(workers[n], description, taskType)]

\* the workers that can stand first after sort.Slice: sort.Slice is not
\* stable and the slice was filled in map order
FirstAfterSort(scores) ==
    { n \in DOMAIN scores : \A m \in DOMAIN scores : scores[m] <= scores[n] }

\* the capability lists the workers are created with
CoderCapabilities ==
    { <<WorkerCapability(<<<<"i", "m", "p", "l", "e", "m", "e", "n", "t">>>>, p)>> : p \in {-2, 0, 1, 2} }
    \cup { <<WorkerCapability(<<<<"I", "m", "p", "l", "e", "m", "e", "n", "t">>, <<"c", "o", "d", "e">>>>, 1)>> }

ResearcherCapabilities ==
    { <<>>,
      <<WorkerCapability(<<<<"r", "e", "s", "e", "a", "r", "c", "h">>>>, 2)>>,
      <<WorkerCapability(<<<<"s", "t", "u", "d", "y">>, <<"m", "a", "r", "k", "e", "t">>>>, 1)>>,
      <<WorkerCapability(<<<<"S", "o", "r", "t", "i", "n", "g">>>>, 4)>> }

RkIdle ==
    /\ rkWorkers = << >>
    /\ rkPc = "off"
    /\ rkTasks = 0
    /\ rkDescription = StrEmpty
    /\ rkTaskType = ""
    /\ rkScores = << >>
    /\ rkSelected = ""
    /\ rkErr = "nil"
    /\ rkHistory = 0
    /\ rkStatuses = << >>

\* a supervisor after AddWorker for a coding and a research worker
RkInit ==
    /\ \E cc \in CoderCapabilities, rc \in ResearcherCapabilities,
          ca \in BOOLEAN, ra \in BOOLEAN :
          rkWorkers = [n \in {"coder", "researcher"} |->
                          IF n = "coder" THEN WorkerAgent("coding", cc, ca)
                          ELSE WorkerAgent("research", rc, ra)]
    /\ rkPc = "idle"
    /\ rkTasks = 0
    /\ rkDescription = StrEmpty
    /\ rkTaskType = ""
    /\ rkScores = << >>
    /\ rkSelected = ""
    /\ rkErr = "nil"
    /\ rkHistory = 0
    /\ rkStatuses = [n \in {"coder", "researcher"} |-> <<>>]

\* Coordinate(ctx, swarm, request) up to the return of RouteTask(task)
RkRouteTask ==
    /\ rkPc \in {"idle", "rejected"}
    /\ rkTasks < MaxTasks
    /\ rkTasks' = rkTasks + 1
    /\ \E description \in TaskDescriptions :
       \E taskType \in AnalyzeTaskType(description) :
        LET scores == Scores(rkWorkers, description, taskType)
        IN  /\ rkDescription' = description
            /\ rkTaskType' = taskType
            /\ rkScores' = scores
            /\ IF \E n \in DOMAIN scores : scores[n] > 0
               THEN /\ rkSelected' \in FirstAfterSort(scores)
                    /\ rkErr' = "nil"
                    /\ rkPc' = "assigned"
               ELSE /\ rkSelected' = ""
                    /\ rkErr' = "no suitable worker found for task type"
                    /\ rkPc' = "rejected"
    /\ UNCHANGED <<rkWorkers, rkHistory, rkStatuses>>
    /\ UNCHANGED notRkVars

\* worker.ProcessTask: the worker is busy while swarm.Run runs
RkProcessTask ==
    /\ rkPc = "assigned"
    /\ rkWorkers' = [rkWorkers EXCEPT ![rkSelected].IsAvailable = FALSE]
    /\ rkPc' = "processing"
    /\ UNCHANGED <<rkTasks, rkDescription, rkTaskType, rkScores, rkSelected, rkErr,
                   rkHistory, rkStatuses>>
    /\ UNCHANGED notRkVars

\* swarm.Run ends (it returns nil, returns an error, or panics); the
\* deferred function of ProcessTask frees the worker and updatePerformance
\* counts the task; Coordinate records a completed task
RkProcessDone ==
    /\ rkPc = "processing"
    /\ \E outcome \in {"nil", "error", "panic"} :
        LET status == StatusAfterRun(outcome)
        IN  /\ rkWorkers' = [rkWorkers EXCEPT
                   ![rkSelected] = [UpdatePerformance(@, status) EXCEPT
                                       !.IsAvailable = TRUE]]
            /\ rkStatuses' = [rkStatuses EXCEPT ![rkSelected] = Append(@, status)]
            /\ rkErr' = CASE outcome = "nil" -> "nil"
                          [] outcome = "error" -> "chat completion error"
                          [] OTHER -> "panic"
            /\ rkHistory' = IF outcome = "nil" THEN rkHistory + 1 ELSE rkHistory
            /\ rkPc' = IF outcome = "panic" THEN "panicked" ELSE "idle"
    /\ UNCHANGED <<rkTasks, rkDescription, rkTaskType, rkScores, rkSelected>>
    /\ UNCHANGED notRkVars

NextRoute ==
    \/ RkRouteTask
    \/ RkProcessTask
    \/ RkProcessDone

\* the tasks a worker processed that ended in status completed
CompletedTasks(n) ==
    Cardinality({ k \in 1..Len(rkStatuses[n]) : rkStatuses[n][k] = TaskStatusCompleted })

\* C35: after any sequence of ProcessTask calls on a worker, the performance
\* record counts every processed task exactly once: TasksCompleted +
\* TasksFailed is the number of tasks the worker has processed, a task counts
\* as completed exactly when it ended in status completed, and SuccessRate is
\* TasksCompleted divided by that total.
C35_PerformanceCountsEveryTaskOnce ==
    \A n \in DOMAIN rkWorkers :
        LET w == rkWorkers[n]
            processed == Len(rkStatuses[n])
        IN  /\ w.TasksCompleted + w.TasksFailed = processed
            /\ w.TasksCompleted = CompletedTasks(n)
            /\ processed > 0 =>
                  w.SuccessRate[1] * processed = w.TasksCompleted * w.SuccessRate[2]

\* a worker has processed a task that failed and then one that completed
C35_Witness ==
    \E n \in DOMAIN rkWorkers :
        /\ rkStatuses[n] = <<TaskStatusFailed, TaskStatusCompleted>>
        /\ rkWorkers[n].TasksCompleted = 1
        /\ rkWorkers[n].TasksFailed = 1
        /\ rkWorkers[n].SuccessRate = <<1, 2>>

\* RouteTask has just answered for "implement a sorting algorithm" with
\* both workers available
RoutedSorting ==
    /\ rkPc \in {"assigned", "rejected"}
    /\ rkDescription = DescSorting
    /\ DOMAIN rkScores = {"coder", "researcher"}

\* a capability of the worker has a keyword that the description holds
MatchingCapabilities(worker, description) ==
    { i \in 1..Len(worker.Capabilities) :
        HasMatchingKeywords(description, worker.Capabilities[i].Keywords) }

\* C8 as stated: RouteTask for "implement a sorting algorithm", given an
\* available coding worker with a capability keyword "implement" and an
\* available research worker, infers the type coding, scores the coding
\* worker strictly higher and returns it.
C8_CodingWorkerSelectedAsStated ==
    RoutedSorting =>
        /\ rkTaskType = "coding"
        /\ rkScores["coder"] > rkScores["researcher"]
        /\ rkSelected = "coder"

\* C8: the same, for a coding worker whose matching capabilities have no
\* negative Priority and a research worker none of whose capability
\* keywords occurs in the description, whatever the two workers' task
\* counts: the type is coding, the coding worker's score is strictly higher
\* and above zero, and RouteTask returns the coding worker.
C8_CodingWorkerSelected ==
    ( /\ RoutedSorting
      /\ \A i \in MatchingCapabilities(rkWorkers["coder"], DescSorting) :
            rkWorkers["coder"].Capabilities[i].Priority >= 0
      /\ MatchingCapabilities(rkWorkers["researcher"], DescSorting) = {} ) =>
        /\ rkTaskType = "coding"
        /\ rkScores["coder"] > rkScores["researcher"]
        /\ rkScores["coder"] > 0
        /\ rkSelected = "coder"
        /\ rkErr = "nil"

\* C8 witness: the coding worker is chosen for the sorting task over a
\* research worker that has completed a task and so has a performance score
C8_Witness ==
    /\ RoutedSorting
    /\ rkPc = "assigned"
    /\ rkSelected = "coder"
    /\ rkWorkers["coder"].Capabilities[1].Priority = 0
    /\ MatchingCapabilities(rkWorkers["researcher"], DescSorting) = {}
    /\ rkWorkers["researcher"].TasksCompleted > 0
    /\ rkScores["researcher"] > AvailabilityWeight

\* ---------------------------------------------------------------------------
\* Error handling of Run
\* ---------------------------------------------------------------------------

\* the calls of the Model Client that have returned an error so far
FailedClientCalls == { i \in 1..Len(clientErrs) : ~clientErrs[i].isNil }

\* C11: when Run has returned, every error a call of the Model Client
\* returned during the run, on the initial request or on the follow-up
\* request after the tools, has made Run return a non-nil error whose text
\* contains the text of that error.
C11_ClientErrorPropagates ==
    runPc = "done" =>
        \A i \in FailedClientCalls :
            /\ ~runErr.isNil
            /\ Contains(runErr.text, clientErrs[i].text)

\* a handled tool call that failed: its arguments do not parse, its name
\* matches no function of the agent, or its callback returned an error
TcFailed(e) ==
    \/ ~UnmarshalOK(e.call.Arguments)
    \/ ~TcMatched(e)
    \/ e.invoked /\ ~e.result.Error.isNil

\* the error text of a failed tool call
TcFailureText(e) ==
    IF ~UnmarshalOK(e.call.Arguments) THEN UnmarshalErrText(e.call.Arguments)
    ELSE IF ~TcMatched(e) THEN e.call.Name \o StrNotFound
    ELSE e.result.Error.text

\* C12: a tool call that fails (callback error, unknown tool, unparseable
\* arguments) never makes Run fail: handleToolCall returns a nil error, the
\* failure is in the history as the tool-result message of that call, named
\* after the tool and carrying the error text; every later tool call of the
\* turn is still handled, its callback running whenever its arguments parse
\* and its name matches; and Run returns a nil error.
C12_ToolFailureNeverFailsRun ==
    \A i \in 1..Len(tcLog) :
        LET e == tcLog[i] IN
        TcFailed(e) =>
            /\ e.err.isNil
            /\ Len(updatedHistory) >= Len(history) + i
            /\ LET m == updatedHistory[Len(history) + i]
               IN  /\ m.Role = RoleFunction
                   /\ m.Name = e.call.Name
                   /\ Contains(m.Content, TcFailureText(e))
            /\ \A j \in (i + 1)..Len(tcLog) :
                  /\ tcLog[j].call = pendingToolCalls[j]
                  /\ tcLog[j].invoked = CallbackInvoked(tcLog[j].call, tcLog[j].agent)
            /\ runPc = "tools" => tcIndex = Len(tcLog) + 1
            /\ runPc \in {"followup", "done"} =>
                  /\ Len(tcLog) = Len(pendingToolCalls)
                  /\ runErr.isNil

\* C12 witness: Run has returned after a turn of two tool calls, the first
\* failing in its callback and the second failing before its callback
C12_Witness ==
    /\ runPc = "done"
    /\ Len(tcLog) = 2
    /\ tcLog[1].invoked /\ ~tcLog[1].result.Error.isNil
    /\ ~tcLog[2].invoked /\ TcFailed(tcLog[2])

\* C13: a Run call with a nil agent, or on a Swarm whose Model Client is not
\* initialized, has returned a non-nil error without crashing and without
\* any call to the Model Client.
C13_PreconditionError ==
    runPc # "idle" /\ (runAgent.isNil \/ ~swarmInitialized) =>
        /\ runPc = "done"
        /\ ~runErr.isNil
        /\ Len(clientReqs) = 0

\* the turns of a Run call: the requests it has sent to the Model Client
RunTurns == Len(clientReqs)

\* the latest response of the Model Client carried tool calls
LastResponseHadToolCalls == runLastToolCalls > 0

\* C14: Run honours the turn budget -- when it has returned normally, it has
\* run at most maxTurns turns, and its last response was free of tool calls
\* unless maxTurns turns have been run.
C14_TurnBudget ==
    runPc = "done" /\ runErr.isNil /\ RunTurns > 0 =>
        /\ RunTurns <= runMaxTurns
        /\ LastResponseHadToolCalls => RunTurns = runMaxTurns

\* ---------------------------------------------------------------------------
\* Agent handoff
\* ---------------------------------------------------------------------------

\* the handled tool calls among the first n whose result carried a next Agent
Handoffs(n) == { i \in 1..n : ~tcLog[i].resp.Agent.isNil }

\* the active agent after the first n tool calls of the turn
ActiveAgent(n) ==
    IF Handoffs(n) = {}
    THEN runAgent
    ELSE tcLog[CHOOSE i \in Handoffs(n) : \A j \in Handoffs(n) : j <= i].resp.Agent

\* the follow-up request has been sent
FollowUpSent == runPc \in {"followup", "done"} /\ Len(clientReqs) = 2

\* a request is made for an agent: it names that agent's model and its
\* history starts as the history Run builds for that agent
MadeFor(req, agent) ==
    /\ req.Model = agent.Model
    /\ LET h == InitialHistory(agent, runMessages)
       IN  /\ Len(req.Messages) >= Len(h)
           /\ SubSeq(req.Messages, 1, Len(h)) = h

\* Run has returned a Response
RunReturned == runPc = "done" /\ runErr.isNil

\* C15: if a tool's Result carries a next Agent, the follow-up
\* request is made for the new agent and Response.Agent is that agent; if no
\* tool result carries a next Agent, Response.Agent is the agent passed in.
C15_AgentSwitch ==
    /\ FollowUpSent /\ Handoffs(Len(tcLog)) # {} /\ runModelOverride = StrEmpty =>
          MadeFor(clientReqs[2], ActiveAgent(Len(tcLog)))
    /\ RunReturned => runResponse.Agent = ActiveAgent(Len(tcLog))

\* ---------------------------------------------------------------------------
\* Properties of the stream assembler
\* ---------------------------------------------------------------------------

\* exactly one call has been opened, under a non-empty id, and none has been
\* executed or marked processed: it is the most recently opened call
OneOpenCall ==
    /\ stPc = "loop"
    /\ Cardinality(DOMAIN stProg) = 1
    /\ "" \notin DOMAIN stProg
    /\ stExec = <<>>
    /\ stDone = {}

OpenCallId == CHOOSE id \in DOMAIN stProg : TRUE

\* the chunk received in this step carries one tool-call fragment, with an
\* empty call id and a piece of argument text
EmptyIdContinuation ==
    /\ stRecvs' = stRecvs + 1
    /\ Len(stFrags') = 1
    /\ stFrags'[1].ID = ""
    /\ stFrags'[1].Arguments # <<>>

\* C16: a tool-call fragment with an empty call id is appended to the
\* argument buffer of the most recently opened call rather than discarded --
\* after the step that receives it the buffer of that call has grown by the
\* fragment's arguments, or, if the grown buffer is complete JSON and the
\* call names a function of the agent, the call has been executed with it.
C16_EmptyIdFragmentAppended ==
    [][ OneOpenCall /\ EmptyIdContinuation =>
          LET id == OpenCallId
              buffer == stProg[id].Arguments \o stFrags'[1].Arguments
          IN  IF UnmarshalOK(buffer) /\ StreamFindFunction(stProg[id].Name) # 0
              THEN \E i \in 1..Len(stExec') :
                      stExec'[i].ID = id /\ stExec'[i].Arguments = buffer
              ELSE /\ id \in DOMAIN stProg'
                   /\ stProg'[id].Arguments = buffer ]_vars

\* the argument buffer of an opened call is empty or not yet complete JSON
IncompleteBuffer(id) ==
    stProg[id].Arguments = <<>> \/ ~UnmarshalOK(stProg[id].Arguments)

\* C17: a tool is executed only after the accumulated argument buffer of
\* its call parses as complete JSON -- every executed call carries arguments
\* that parse, a call whose buffer is still empty (announced by name only) or
\* incomplete has not been executed, and every tool call in the message
\* handed to OnComplete carries arguments that parse.
C17_ExecutedOnlyWhenComplete ==
    /\ \A i \in 1..Len(stExec) :
          stExec[i].Arguments # <<>> /\ UnmarshalOK(stExec[i].Arguments)
    /\ \A id \in DOMAIN stProg :
          IncompleteBuffer(id) => id \notin ExecutedIds(stExec)
    /\ \A k \in 1..Len(stCompleted) :
          /\ \A i \in 1..Len(stCompleted[k].ToolCalls) :
                UnmarshalOK(stCompleted[k].ToolCalls[i].Arguments)
          /\ \A id \in DOMAIN stProg :
                IncompleteBuffer(id) =>
                    \A i \in 1..Len(stCompleted[k].ToolCalls) :
                        stCompleted[k].ToolCalls[i].ID # id

\* C17 witness: OnComplete has been reached after one call was executed,
\* while a call announced by name only and a call with an incomplete buffer
\* were still open
C17_Witness ==
    /\ stPc = "done"
    /\ Len(stCompleted) = 1
    /\ stExec # <<>>
    /\ \E id \in DOMAIN stProg :
          stProg[id].Name = NameCalc /\ stProg[id].Arguments \in {<<>>, <<"{">>}

\* ---------------------------------------------------------------------------
\* Properties of the graph engine
\* ---------------------------------------------------------------------------

\* C18: every node's process function runs on a clone of the current state,
\* so whatever a node writes into the map it receives, the caller's
\* initialState map (the state the graph_start hooks and the first node
\* were given) keeps the key bindings it was passed in with.
C18_InitialStateKept ==
    egPc # "off" => egHeap[1] \in InitialStates(egGraph)

\* the node id an edge fires with on a state, NoNode if it does not fire: a
\* Standard edge and a Fallback edge fire with their target, a Conditional
\* edge with the id its router returns unless the router returns an error
FiresWith(edge, heap, cur) ==
    CASE edge.Type \in {StandardEdge, FallbackEdge} -> edge.To
      [] edge.Type = ConditionEdge /\ edge.Cond # "nil" ->
            LET o == CHOOSE o \in CondOutcomes(edge.Cond, heap, cur) : TRUE
            IN  IF o.failed THEN NoNode ELSE o.id
      [] OTHER -> NoNode

\* the positions of the edges that fire
FiringEdges(edges, heap, cur) ==
    { i \in 1..Len(edges) : FiresWith(edges[i], heap, cur) # NoNode }

\* the first of a non-empty set of positions
First(positions) == CHOOSE i \in positions : \A j \in positions : i <= j

\* the node's process function has returned without an error, the node is
\* not an exit point and has outgoing edges: the transition is computed
TransitionStep ==
    /\ egPc = "process"
    /\ egPc' \in {"loop", "done"}
    /\ egNode \notin egGraph.ExitPoints
    /\ egNode \in DOMAIN egGraph.Edges
    /\ Len(egGraph.Edges[egNode]) > 0
    /\ egErr'.kind # ErrProcessing(NoNode).kind

\* C19: the outgoing edges of the current node are evaluated in declaration
\* order on the state the node returned, and the first edge that fires
\* decides the next node -- a Standard edge fires with its target, a
\* Conditional edge with the id its router returns, a Conditional edge whose
\* router returns an error is skipped; when no edge fires, ExecuteGraph
\* returns the "no valid transition" error for the current node.
C19_FirstFiringEdgeDecides ==
    [][ TransitionStep =>
          LET edges == egGraph.Edges[egNode]
              firing == FiringEdges(edges, egHeap', egCur')
          IN  IF firing = {}
              THEN /\ egPc' = "done"
                   /\ egErr' = ErrNoValidTransition(egNode)
              ELSE /\ egPc' = "loop"
                   /\ egNode' = FiresWith(edges[First(firing)], egHeap', egCur') ]_vars

\* C19 witness: on node A of the fallback graph the first Conditional edge's
\* router returned an error, two edges that cannot fire were passed, and the
\* fourth edge, a Conditional one, fired with the id B its router returned
C19_Witness ==
    /\ egGraph = GraphFallback
    /\ egPc = "loop"
    /\ egNode = "B"
    /\ egProcessed["A"] = 1
    /\ egHeap[egCur].next = "B"

\* the positions of the firing edges that are not Fallback edges
FiringOtherEdges(edges, heap, cur) ==
    { i \in FiringEdges(edges, heap, cur) : edges[i].Type # FallbackEdge }

\* C20: a Fallback edge is taken only if no other outgoing edge resolves,
\* wherever it sits in the edge list -- whenever a Standard edge or a
\* Conditional edge of the current node fires, the next node is the one the
\* first such edge fires with.
C20_FallbackOnlyIfNoOther ==
    [][ TransitionStep =>
          LET edges == egGraph.Edges[egNode]
              others == FiringOtherEdges(edges, egHeap', egCur')
          IN  others # {} =>
                /\ egPc' = "loop"
                /\ egNode' = FiresWith(edges[First(others)], egHeap', egCur') ]_vars

\* the repeated call, with hooks registered, has returned
RepeatedCallReturned == egRun = 2 /\ egPc = "done"

\* C21: event hooks do not affect control flow -- for the same graph and an
\* equal initial state, the call with hooks registered processes the same
\* sequence of nodes and returns the same state and the same error as the
\* call without hooks, whatever the hooks do with the state they are given.
C21_HooksDoNotAffectControlFlow ==
    RepeatedCallReturned =>
        Outcome(egTrace, egHeap[egRet], egErr) = egRef

\* C22: once the context is cancelled, ExecuteGraph processes no further
\* node -- a cancelled call that is at the head of its loop returns the
\* context's error together with the current state without entering or
\* processing a node, so that after the cancellation only the node whose
\* process function was already under way is processed.
C22_NoNodeAfterCancel ==
    [][ egCancelled =>
          /\ egPc = "loop" =>
                /\ egPc' = "done"
                /\ egErr' = ErrContextCanceled
                /\ egRet' = egCur
                /\ egHeap' = egHeap
                /\ egVisited' = egVisited
          /\ egPc # "process" => egTrace' = egTrace /\ egProcessed' = egProcessed
          /\ egPc = "process" => Len(egTrace') = Len(egTrace) + 1 /\ egPc' # "process"
      ]_vars

\* C22 witness: the context was cancelled after the first node had been
\* processed, and ExecuteGraph returned the context's error and the
\* current state before the next node
C22_Witness ==
    /\ egPc = "done"
    /\ egCancelled
    /\ egErr = ErrContextCanceled
    /\ egRet = egCur
    /\ Len(egTrace) = 1
    /\ egNode # egTrace[1]

\* the nodes whose process function has returned a state, in order: the
\* nodes of the node_exit events
Exited ==
    LET exits == SelectSeq(egEvents, LAMBDA e : e.kind = "node_exit")
    IN  [i \in 1..Len(exits) |-> exits[i].node]

\* the number of graph_complete events fired
Completions ==
    Len(SelectSeq(egEvents, LAMBDA e : e.kind = "graph_complete"))

\* C30: ExecuteGraph returns a nil error if and only if the last node it
\* processed is a declared exit point; it stops right after processing the
\* first exit point it reaches, without evaluating that node's outgoing
\* edges (no node follows an exit point), and graph_complete is fired only
\* then, once, as the last event.
C30_NilErrorIffExitPoint ==
    /\ egPc = "done" =>
          (egErr = NoGraphError <=>
              /\ Exited # <<>>
              /\ Exited[Len(Exited)] \in egGraph.ExitPoints)
    /\ \A i \in 1..Len(Exited) :
          Exited[i] \in egGraph.ExitPoints =>
              /\ i = Len(Exited)
              /\ egPc = "done"
              /\ egTrace[Len(egTrace)] = Exited[i]
              /\ egNode = Exited[i]
              /\ egEvents[Len(egEvents)].kind = "graph_complete"
    /\ Completions = (IF egPc = "done" /\ egErr = NoGraphError THEN 1 ELSE 0)

\* C30 witness: the run has returned without error at the exit point X,
\* which has an outgoing edge back to A, after A had been processed
C30_Witness ==
    /\ egGraph = GraphRouted
    /\ egPc = "done"
    /\ egErr = NoGraphError
    /\ egTrace = <<"A", "X">>
    /\ Len(egGraph.Edges["X"]) > 0

\* ---------------------------------------------------------------------------
\* The follow-up request
\* ---------------------------------------------------------------------------

\* the tool calls the follow-up responses carry
FollowUpCalls ==
    UNION { { resp.Choices[1].ToolCalls[i] : i \in 1..Len(resp.Choices[1].ToolCalls) } :
            resp \in { r \in FollowUpResponses : Len(r.Choices) > 0 } }

\* C29: after the tool calls of a turn, exactly one follow-up request is
\* sent, only after all of the turn's tool calls have run, and it declares
\* no tools; no tool call of the follow-up response is executed or returned
\* to the caller.
C29_OneFollowUpWithoutTools ==
    /\ Len(clientReqs) <= 2
    /\ runPc = "tools" => Len(clientReqs) = 1
    /\ runPc \in {"followup", "done"} /\ Len(pendingToolCalls) > 0 =>
          /\ Len(clientReqs) = 2
          /\ Len(tcLog) = Len(pendingToolCalls)
          /\ clientReqs[2].Tools = <<>>
          /\ Len(clientReqs[2].Messages) = Len(history) + Len(pendingToolCalls)
    /\ \A i \in 1..Len(tcLog) :
          tcLog[i].call = pendingToolCalls[i] /\ tcLog[i].call \notin FollowUpCalls
    /\ Len(tcLog) <= Len(pendingToolCalls)
    /\ runPc = "done" =>
          /\ \A i \in 1..Len(runResponse.Messages) :
                \A j \in 1..Len(runResponse.Messages[i].ToolCalls) :
                    runResponse.Messages[i].ToolCalls[j] \notin FollowUpCalls
          /\ Len(runResponse.ToolResults) <= Len(pendingToolCalls)

\* C29 witness: Run has returned after two tool calls and a follow-up
\* response that carried a tool call of its own
C29_Witness ==
    /\ runPc = "done"
    /\ Len(tcLog) = 2
    /\ Len(clientErrs) = 2
    /\ runLastToolCalls > 0
    /\ runResponse.Messages # <<>>

\* ---------------------------------------------------------------------------
\* Cancellation and fatal errors in getChatCompletion
\* ---------------------------------------------------------------------------

\* getChatCompletion is in a retry backoff
InBackoff == gccPc \in {"sleep", "select"}

\* C23: cancelling the context while getChatCompletion is in a retry
\* backoff aborts the sleep -- the next step of a cancelled call that is in
\* a backoff is its return, without completing the backoff wait and without
\* a further Model Client attempt, under every rate-limit strategy and for
\* transient errors alike.
C23_CancelAbortsBackoff ==
    [][ gccCancelled /\ InBackoff =>
          /\ gccPc' = "done"
          /\ gccBackoffs' = gccBackoffs
          /\ gccErrs' = gccErrs ]_vars

\* the Model Client errors the provider reports for a failed authentication
\* and for an unknown model
FatalTexts == { StrErrAuth, StrErrModel }

\* the attempts of the current call answered with such an error
FatalAttempts == { i \in 1..Len(gccErrs) : gccErrs[i].text \in FatalTexts }

C24_CancelledReturnKeepsProduced ==
    /\ (rcMainPc = "collect" /\ rcCancelled) => ENABLED RcReturnCancelled
    /\ (rcMainPc = "returned" /\ rcCancelled) =>
          \A n \in rcAtCancel :
              \E i \in 1..Len(rcReturned) :
                  rcReturned[i] = ConcurrentResult(n, rcOutcome[n])

\* ---------------------------------------------------------------------------
\* RunConcurrentOrdered
\* ---------------------------------------------------------------------------

\* C25: RunConcurrentOrdered returns a list in which, for every i, position
\* i holds the result named as the i-th entry of the caller's ordered list
\* -- the result of the invocation of that name -- for every input list and
\* whatever the completion order of the invocations.
C25_OrderedAsCallerList ==
    rcMainPc = "reordered" =>
        /\ ~rcOrderedRet.panicked
        /\ Len(rcOrderedRet.list) = Len(rcOrdered)
        /\ \A i \in 1..Len(rcOrdered) :
              rcOrderedRet.list[i] =
                  ConcurrentResult(rcOrdered[i].Name, rcOutcome[rcOrdered[i].Name])

-----------------------------------------------------------------------------
(* Workflow.Execute: the agent workflow of workflow.go, for a               *)
(* CollaborativeWorkflow.  The agents of the workflow are driven through    *)
(* Swarm.Run; what an agent answers is an input of the model.               *)

\* the names of the agents added to a workflow, and a name no agent has
NameA == <<"A">>
NameB == <<"B">>
NameC == <<"C">>
NameUnknown == <<"Z">>

StrFinalAnswer == <<"f", "i", "n", "a", "l", " ", "a", "n", "s", "w", "e", "r">>
StrAtA == <<"@">> \o NameA
StrAtB == <<"@">> \o NameB
StrStartAgentMissing == <<"s", "t", "a", "r", "t", "A", "g", "e", "n", "t", " ", "d", "o", "e", "s", " ", "n", "o", "t", " ", "e", "x", "i", "s", "t">>
StrCycleCallbackError == <<"c", "y", "c", "l", "e", " ", "c", "a", "l", "l", "b", "a", "c", "k", " ", "e", "r", "r", "o", "r", ":", " ">>
StrCallbackFailed == <<"c", "a", "l", "l", "b", "a", "c", "k", " ", "f", "a", "i", "l", "e", "d">>

\* llm.Message as Execute reads it
WfMsg(role, content) == [Role |-> role, Content |-> content]

\* routingKeywords of containsRoutingInstruction
RoutingKeywords ==
    { <<"r", "o", "u", "t", "e", " ", "t", "o">>,
      <<"s", "e", "n", "d", " ", "t", "o">>,
      <<"f", "o", "r", "w", "a", "r", "d", " ", "t", "o">>,
      <<"d", "e", "l", "e", "g", "a", "t", "e", " ", "t", "o">>,
      <<"a", "s", "s", "i", "g", "n", " ", "t", "o">>,
      <<"@">> }

\* containsRoutingInstruction(content)
ContainsRoutingInstruction(content) ==
    \E k \in RoutingKeywords : Contains(ToLower(content), k)

\* \w of a regular expression
IsWordChar(c) ==
    \/ \E i \in 1..Len(LowerLetters) : c = LowerLetters[i] \/ c = UpperLetters[i]
    \/ c \in {"0", "1", "2", "3", "4", "5", "6", "7", "8", "9", "_"}

\* routingPatterns of extractRoutingAgent, each without its group (\w+);
\* (?i) makes the letters match in either case
RoutingPatterns ==
    << <<"r", "o", "u", "t", "e", " ", "t", "o", " ">>,
      <<"s", "e", "n", "d", " ", "t", "o", " ">>,
      <<"f", "o", "r", "w", "a", "r", "d", " ", "t", "o", " ">>,
      <<"d", "e", "l", "e", "g", "a", "t", "e", " ", "t", "o", " ">>,
      <<"a", "s", "s", "i", "g", "n", " ", "t", "o", " ">>,
      <<"@">> >>

\* re.FindStringSubmatch(content)[1] for the pattern  prefix(\w+) : the
\* longest run of word characters after the leftmost place where the
\* prefix is followed by one; <<>> when the pattern does not match
Submatch(content, prefix) ==
    LET n == Len(prefix)
        starts == { i \in 1..(Len(content) - n) :
                      /\ ToLower(SubSeq(content, i, i + n - 1)) = prefix
                      /\ IsWordChar(content[i + n]) }
    IN  IF starts = {} THEN <<>>
        ELSE LET i == CHOOSE x \in starts : \A y \in starts : x <= y
                 ends == { e \in (i + n)..Len(content) :
                             \A m \in (i + n)..e : IsWordChar(content[m]) }
                 e == CHOOSE x \in ends : \A y \in ends : y <= x
             IN  SubSeq(content, i + n, e)

\* extractRoutingAgent(content): the first pattern that matches decides
ExtractRoutingAgent(content) ==
    LET matching == { p \in 1..Len(RoutingPatterns) :
                        Submatch(content, RoutingPatterns[p]) # <<>> }
    IN  IF matching = {} THEN <<>>
        ELSE Submatch(content,
                      RoutingPatterns[CHOOSE p \in matching : \A q \in matching : p <= q])

\* finalKeywords of isFinalAnswer; the content is lower-cased before the
\* comparison, the keywords are not
FinalKeywords ==
    { <<"f", "i", "n", "a", "l", " ", "a", "n", "s", "w", "e", "r">>,
      <<"f", "i", "n", "a", "l", " ", "r", "e", "s", "p", "o", "n", "s", "e">>,
      <<"f", "i", "n", "a", "l", " ", "s", "o", "l", "u", "t", "i", "o", "n">>,
      <<"f", "i", "n", "a", "l", " ", "r", "e", "s", "u", "l", "t">>,
      <<"e", "n", "d", " ", "w", "o", "r", "k", "f", "l", "o", "w">>,
      <<"c", "o", "m", "p", "l", "e", "t", "e", " ", "w", "o", "r", "k", "f", "l", "o", "w">>,
      <<"F", "I", "N", "A", "L", ":">> }

\* isFinalAnswer(content)
IsFinalAnswer(content) ==
    \E k \in FinalKeywords : Contains(ToLower(content), k)

\* generateMessageID(msg): the first 8 bytes of the SHA-256 of
\* "role:content", taken to be different for different texts
GenerateMessageID(msg) == <<msg.Role, msg.Content>>

\* hasProcessedMessage(state, history) for a state that is not nil, with
\* the ids the state holds under "processed_message_ids": the call that
\* answers false also stores the id in the state
HasProcessedMessage(ids, msgs) ==
    GenerateMessageID(msgs[Len(msgs)]) \in ids

MarkProcessed(states, name, msgs) ==
    [states EXCEPT ![name] = @ \cup { GenerateMessageID(msgs[Len(msgs)]) }]

\* (nextAgent, shouldContinue) and wf.agentStates after the call
Route(next, ok, states) == [next |-> next, ok |-> ok, states |-> states]

\* handleCollaborativeRouting(currentAgent, messageHistory): the connected
\* agents are asked in the order of the slice; the range over the map
\* wf.agents visits the agents in an order no program can rely on
HandleCollaborativeRouting(currentAgent, msgs, connections, agents, states) ==
    LET conn == connections[currentAgent]
        fresh == { i \in 1..Len(conn) : ~HasProcessedMessage(states[conn[i]], msgs) }
        first == CHOOSE i \in fresh : \A j \in fresh : i <= j
        others == { n \in agents \ {currentAgent} :
                      ~HasProcessedMessage(states[n], msgs) }
    IN  IF fresh # {}
        THEN { Route(conn[first], TRUE, MarkProcessed(states, conn[first], msgs)) }
        ELSE IF ~IsFinalAnswer(msgs[Len(msgs)].Content) /\ others # {}
        THEN { Route(n, TRUE, MarkProcessed(states, n, msgs)) : n \in others }
        ELSE { Route(<<>>, FALSE, states) }

\* routeToNextAgent(currentAgent, messageHistory) of a CollaborativeWorkflow
RouteToNextAgent(currentAgent, msgs, connections, agents, states) ==
    LET content == msgs[Len(msgs)].Content IN
    IF ContainsRoutingInstruction(content) /\ ExtractRoutingAgent(content) \in agents
    THEN { Route(ExtractRoutingAgent(content), TRUE, states) }
    ELSE HandleCollaborativeRouting(currentAgent, msgs, connections, agents, states)

\* the most steps a modelled Execute call runs
MaxSteps == 4

\* what wf.swarm.Run answers for an agent: a failure, or one assistant
\* message with a content
WfAnswer(failed, content) == [failed |-> failed, content |-> content]

AgentAnswers ==
    { WfAnswer(TRUE, StrEmpty) } \cup
    { WfAnswer(FALSE, c) : c \in {StrHello, StrFinalAnswer, StrAtA, StrAtB} }

\* the workflows of the model: two or three agents, A connected to B or
\* no connection at all
AgentSets == { {NameA, NameB}, {NameA, NameB, NameC} }

ConnectionsOf(agents) ==
    { [n \in agents |-> <<>>],
      [n \in agents |-> IF n = NameA THEN <<NameB>> ELSE <<>>] }

CycleHandlings == {"StopOnCycle", "ContinueOnCycle"}

\* what a cycle callback returns: (true, nil), (false, nil) or an error
CallbackReturns == {"continue", "stop", "error"}

StepResult(agent, input, output, err, next, number) ==
    [AgentName |-> agent, Input |-> input, Output |-> output, Error |-> err,
     NextAgent |-> next, StepNumber |-> number]

WorkflowResult(steps, final, err) ==
    [Steps |-> steps, FinalOutput |-> final, Error |-> err]

\* the entry wf.logTransition(from, to, reason) appends to wf.routingLog
Transition(from, to, reason) == [from |-> from, to |-> to, reason |-> reason]

NoWfRef == [result |-> WorkflowResult(<<>>, <<>>, NilErr), err |-> NilErr, called |-> FALSE]

\* a Workflow after NewWorkflow, AddAgent, ConnectAgents, SetCycleHandling
\* and SetCycleCallback, before Execute is called
WfInit ==
    /\ wfAgents \in AgentSets
    /\ wfConnections \in ConnectionsOf(wfAgents)
    /\ wfAnswers \in [wfAgents -> AgentAnswers]
    /\ wfCycleHandling \in CycleHandlings
    /\ wfHasCallback \in BOOLEAN
    /\ wfAgentStates = [n \in wfAgents |-> {}]
    /\ wfCurrentAgent = <<>>
    /\ wfCurrentStep = 0
    /\ wfStepResults = <<>>
    /\ wfRoutingLog = <<>>
    /\ wfPc = "idle"
    /\ wfStart = <<>>
    /\ wfHistory = <<>>
    /\ wfVisited = {}
    /\ wfCycleCount = [n \in wfAgents |-> 0]
    /\ wfResult = WorkflowResult(<<>>, <<>>, NilErr)
    /\ wfErr = NilErr
    /\ wfCallbackLog = <<>>
    /\ wfRun = 1
    /\ wfRef = NoWfRef

WfIdle ==
    /\ wfAgents = {}
    /\ wfConnections = << >>
    /\ wfAnswers = << >>
    /\ wfCycleHandling = "StopOnCycle"
    /\ wfHasCallback = FALSE
    /\ wfAgentStates = << >>
    /\ wfCurrentAgent = <<>>
    /\ wfCurrentStep = 0
    /\ wfStepResults = <<>>
    /\ wfRoutingLog = <<>>
    /\ wfPc = "idle"
    /\ wfStart = <<>>
    /\ wfHistory = <<>>
    /\ wfVisited = {}
    /\ wfCycleCount = << >>
    /\ wfResult = WorkflowResult(<<>>, <<>>, NilErr)
    /\ wfErr = NilErr
    /\ wfCallbackLog = <<>>
    /\ wfRun = 1
    /\ wfRef = NoWfRef

\* Execute(startAgent, userRequest) up to the loop: the result is made, the
\* start agent looked up, and the locals and wf.currentAgent,
\* wf.currentStep are set
ExecuteEntry(startAgent) ==
    /\ wfStart' = startAgent
    /\ wfCallbackLog' = <<>>
    /\ wfResult' = WorkflowResult(<<>>, <<>>, NilErr)
    /\ IF startAgent \notin wfAgents
       THEN /\ wfPc' = "returned"
            /\ wfErr' = NewError(StrStartAgentMissing)
            /\ UNCHANGED <<wfHistory, wfVisited, wfCycleCount, wfCurrentAgent,
                           wfCurrentStep, wfRoutingLog>>
       ELSE /\ wfPc' = "loop"
            /\ wfErr' = NilErr
            /\ wfHistory' = <<WfMsg(RoleUser, StrHello)>>
            /\ wfVisited' = {}
            /\ wfCycleCount' = [n \in wfAgents |-> 0]
            /\ wfCurrentAgent' = startAgent
            /\ wfCurrentStep' = 0
            /\ wfRoutingLog' =
                  Append(wfRoutingLog, Transition("start", startAgent, "workflow initialization"))
    /\ UNCHANGED <<wfAgents, wfConnections, wfAnswers, wfCycleHandling,
                   wfHasCallback, wfAgentStates, wfStepResults>>

\* the first Execute call on the Workflow
WfExecute ==
    /\ wfPc = "idle"
    /\ \E startAgent \in wfAgents \cup {NameUnknown} : ExecuteEntry(startAgent)
    /\ UNCHANGED <<wfRun, wfRef>>
    /\ UNCHANGED notWfVars

\* Execute is called again on the same Workflow, with the same start agent
\* and request
WfExecuteAgain ==
    /\ wfPc = "returned"
    /\ wfRun = 1
    /\ wfRun' = 2
    /\ wfRef' = [result |-> wfResult, err |-> wfErr, called |-> wfCallbackLog # <<>>]
    /\ ExecuteEntry(wfStart)
    /\ UNCHANGED notWfVars

\* what one iteration of Execute's loop does after the step was stored,
\* for the routing r and, where the cycle callback is called, its return
\* ret: where the call stands, the transitions logged, and what is returned
AfterRouting(r, msgs, ret) ==
    LET agent == wfCurrentAgent
        count == wfCycleCount[r.next] + 1
        base == [pc |-> "returned", agent |-> agent, visited |-> wfVisited,
                 cycleCount |-> wfCycleCount, logged |-> <<>>,
                 final |-> msgs, err |-> NilErr, called |-> FALSE]
        cycle == [base EXCEPT !.cycleCount = [wfCycleCount EXCEPT ![r.next] = count],
                              !.logged = <<Transition(agent, r.next, <<"cycle detected", count>>)>>]
    IN  IF ~r.ok
        THEN [base EXCEPT !.logged = <<Transition(agent, "end", "workflow complete")>>]
        ELSE IF r.next \in wfVisited
        THEN IF wfCycleHandling = "StopOnCycle"
             THEN cycle
             ELSE IF wfHasCallback /\ ret = "error"
             THEN [cycle EXCEPT !.called = TRUE, !.final = <<>>,
                                !.err = ErrorfV(StrCycleCallbackError,
                                                NewError(StrCallbackFailed))]
             ELSE IF wfHasCallback /\ ret = "stop"
             THEN [cycle EXCEPT !.called = TRUE]
             ELSE [cycle EXCEPT !.called = wfHasCallback, !.pc = "loop",
                                !.agent = r.next]
        ELSE [base EXCEPT !.pc = "loop", !.agent = r.next,
                          !.visited = wfVisited \cup {r.next},
                          !.logged = <<Transition(agent, r.next, "normal routing")>>]

\* one iteration of Execute's loop: the current agent is executed, its
\* step stored, the next agent routed to and a cycle handled
WfStep ==
    /\ wfPc = "loop"
    /\ wfCurrentStep < MaxSteps
    /\ LET agent == wfCurrentAgent
           answer == wfAnswers[agent]
           number == wfCurrentStep + 1
       IN  IF answer.failed
           THEN LET err == ErrorfV(StrChatCompletionError, NewError(StrAPIError))
                    step == StepResult(agent, wfHistory, <<>>, err, <<>>, number)
                IN  /\ wfResult' = WorkflowResult(Append(wfResult.Steps, step), <<>>, err)
                    /\ wfErr' = err
                    /\ wfPc' = "returned"
                    /\ UNCHANGED <<wfAgentStates, wfCurrentAgent, wfCurrentStep,
                                   wfStepResults, wfRoutingLog, wfHistory, wfVisited,
                                   wfCycleCount, wfCallbackLog>>
           ELSE LET response == <<WfMsg(RoleAssistant, answer.content)>>
                    msgs == wfHistory \o response
                IN  \E r \in RouteToNextAgent(agent, msgs, wfConnections,
                                              wfAgents, wfAgentStates) :
                    \E ret \in CallbackReturns :
                        LET step == StepResult(agent, wfHistory, response, NilErr,
                                               r.next, number)
                            after == AfterRouting(r, msgs, ret)
                        IN  /\ wfHistory' = msgs
                            /\ wfAgentStates' = r.states
                            /\ wfStepResults' = Append(wfStepResults, step)
                            /\ wfCurrentStep' = wfCurrentStep + 1
                            /\ wfPc' = after.pc
                            /\ wfCurrentAgent' = after.agent
                            /\ wfVisited' = after.visited
                            /\ wfCycleCount' = after.cycleCount
                            /\ wfRoutingLog' = wfRoutingLog \o after.logged
                            /\ wfErr' = after.err
                            /\ wfResult' =
                                  WorkflowResult(
                                      Append(wfResult.Steps, step),
                                      IF after.pc = "returned" THEN after.final ELSE <<>>,
                                      after.err)
                            /\ wfCallbackLog' =
                                  IF after.called
                                  THEN Append(wfCallbackLog,
                                              [from |-> agent, to |-> r.next, ret |-> ret,
                                               step |-> wfCurrentStep + 1])
                                  ELSE wfCallbackLog
    /\ UNCHANGED <<wfAgents, wfConnections, wfAnswers, wfCycleHandling,
                   wfHasCallback, wfStart, wfRun, wfRef>>
    /\ UNCHANGED notWfVars

NextWorkflow ==
    \/ WfExecute
    \/ WfStep
    \/ WfExecuteAgain

\* ---------------------------------------------------------------------------
\* Workflow.Execute: the cycle callback and repeated calls
\* ---------------------------------------------------------------------------

RECURSIVE SumOf(_, _)
SumOf(f, S) ==
    IF S = {} THEN 0
    ELSE LET n == CHOOSE x \in S : TRUE IN f[n] + SumOf(f, S \ {n})

\* how often the current Execute call has detected a cycle
CyclesDetected == SumOf(wfCycleCount, DOMAIN wfCycleCount)

\* the calls of the cycle callback that returned false or an error
StoppingCalls == { i \in 1..Len(wfCallbackLog) : wfCallbackLog[i].ret # "continue" }

\* C26: in Workflow.Execute with ContinueOnCycle the cycle callback is
\* invoked synchronously each time a cycle is detected, and a false return
\* or an error from it stops the run -- no further agent is executed --
\* with the result carrying the message history accumulated so far.
C26_CycleCallbackDecides ==
    (wfCycleHandling = "ContinueOnCycle" /\ wfHasCallback) =>
        /\ Len(wfCallbackLog) = CyclesDetected
        /\ \A i \in StoppingCalls :
              /\ i = Len(wfCallbackLog)
              /\ wfPc = "returned"
              /\ wfCurrentStep = wfCallbackLog[i].step
              /\ Len(wfResult.Steps) = wfCallbackLog[i].step
              /\ wfResult.FinalOutput = wfHistory

\* GetStepResult(stepNumber): the step of that number in wf.stepResults,
\* and no step for a number out of range
NoStep == StepResult(<<>>, <<>>, <<>>, NilErr, <<>>, 0)

GetStepResult(stepNumber) ==
    IF stepNumber < 1 \/ stepNumber > Len(wfStepResults)
    THEN NoStep
    ELSE wfStepResults[stepNumber]

\* the second of two Execute calls has returned, and no cycle callback was
\* consulted by either
SecondCallReturned ==
    /\ wfRun = 2
    /\ wfPc = "returned"
    /\ ~wfRef.called
    /\ wfCallbackLog = <<>>

\* C27: the engine holds no cross-run state -- two successive Execute calls
\* on the same Workflow with the same start agent and request, with agents
\* answering identically, take the same route, and the step results, step
\* numbers and routing decisions of the second run are those of the first.
C27_NoCrossRunState ==
    SecondCallReturned =>
        /\ wfResult = wfRef.result
        /\ wfErr = wfRef.err
        /\ \A k \in 1..Len(wfResult.Steps) :
              wfResult.Steps[k].Error.isNil => GetStepResult(k) = wfResult.Steps[k]

\* ---------------------------------------------------------------------------
\* ExecuteGraph: the state returned with an error
\* ---------------------------------------------------------------------------

\* ExecuteGraph has returned an error
Aborted == egPc = "done" /\ egErr # NoGraphError

\* C31: whenever ExecuteGraph aborts (node process error, no outgoing
\* edges, no valid transition, infinite-loop threshold, unknown node,
\* cancellation) it returns, together with the error, the state produced by
\* the last node that completed successfully -- the initial state if none
\* did; the failing node's own output is not part of it.
C31_AbortReturnsLastGoodState ==
    Aborted => egHeap[egRet] = egLast

\* ---------------------------------------------------------------------------
\* Workflow.Execute: cycles
\* ---------------------------------------------------------------------------

\* how often the current Execute call has executed the agent n
Executions(n) ==
    Cardinality({ k \in 1..Len(wfResult.Steps) : wfResult.Steps[k].AgentName = n })

\* C32: in Workflow.Execute the cycle-detected event (OnCycleDetected hook,
\* cycle callback, cycle handling) is raised only when an agent's visit
\* count exceeds the fixed threshold of ten, not on an earlier repeat visit:
\* a step that detects a cycle towards an agent finds that agent executed
\* ten times already.
C32_CycleEventOnlyAboveThreshold ==
    [][ \A n \in DOMAIN wfCycleCount \cap DOMAIN wfCycleCount' :
          wfCycleCount'[n] > wfCycleCount[n] => Executions(n)' + 1 > MaxVisits ]_vars

-----------------------------------------------------------------------------
(* Workflow.routeToNextAgent of a SupervisorWorkflow                        *)

\* the agent names of the supervisor workflows, as texts
Spelling(name) ==
    CASE name = "boss" -> <<"b", "o", "s", "s">>
      [] name = "rita" -> <<"r", "i", "t", "a">>
      [] name = "dan" -> <<"d", "a", "n">>
      [] name = "dev" -> <<"d", "e", "v">>
      [] name = "ann" -> <<"a", "n", "n">>
      [] name = "research-1" -> <<"r", "e", "s", "e", "a", "r", "c", "h", "-", "1">>
      [] name = "document-1" -> <<"d", "o", "c", "u", "m", "e", "n", "t", "-", "1">>
      [] name = "analysis-1" -> <<"a", "n", "a", "l", "y", "s", "i", "s", "-", "1">>
      [] OTHER -> <<"d", "e", "v", "e", "l", "o", "p", "e", "r", "-", "1">>

\* the names of wf.agents: the team leaders and the team members
WorkflowAgents(wf) ==
    { wf.teamLeaders[t] : t \in DOMAIN wf.teamLeaders }
    \cup { FirstMember(t) : t \in { u \in TaskTeams : wf.teams[u] > 0 } }

\* the last messages of the agents of a supervisor workflow
SupervisorContents ==
    RouterContents \cup
    { <<"s", "e", "n", "d", " ", "t", "o", " ", "r", "i", "t", "a">>,
      <<"d", "o", "n", "e", " ", "@", "d", "a", "n">>,
      <<"T", "a", "s", "k", " ", "c", "o", "m", "p", "l", "e", "t", "e", ",", " ", "d", "e", "l", "e", "g", "a", "t", "e", " ", "t", "o", " ", "n", "o", "b", "o", "d", "y">> }

\* routeToNextAgent(currentAgent, messageHistory) of a SupervisorWorkflow;
\* order is the order of the range over taskTeams
RouteToNextAgentSupervisor(wf, currentAgent, messageHistory, order) ==
    LET content == messageHistory[Len(messageHistory)]
        named == { n \in WorkflowAgents(wf) : Spelling(n) = ExtractRoutingAgent(content) }
    IN  IF ContainsRoutingInstruction(content) /\ named # {}
        THEN Routing(CHOOSE n \in named : TRUE, TRUE, "nil")
        ELSE HandleSupervisorRouting(wf, currentAgent, messageHistory, order)

\* a supervisor workflow, the agent that has just executed and its message
RtInitSupervisor ==
    /\ rtRouter = "workflow"
    /\ rtResults = <<>>
    /\ rtDestinations = << >>
    /\ rtState \in { [present |-> TRUE, messages |-> <<c>>] : c \in SupervisorContents }
    /\ rtWorkflow \in Workflows
    /\ rtCurrentAgent \in {"boss", "rita", "dan"}

\* Execute routes after the agent's step
RtRouteToNextAgent ==
    /\ rtRouter = "workflow"
    /\ Len(rtResults) < MaxEvaluations
    /\ \E order \in Orders(TaskTeams) :
          rtResults' = Append(rtResults,
              RouteToNextAgentSupervisor(rtWorkflow, rtCurrentAgent, rtState.messages, order))
    /\ UNCHANGED <<rtRouter, rtDestinations, rtState, rtWorkflow, rtCurrentAgent>>
    /\ UNCHANGED notRtVars

NextSupervisor == RtRouteToNextAgent

\* the leader of the supervisor team
SupervisorName == rtWorkflow.teamLeaders["supervisor"]

\* C33: in a SupervisorWorkflow, after any agent other than the
\* supervisor-team leader has executed, routeToNextAgent selects the leader
\* as the next agent, whatever the content of that agent's last message.
C33_NonLeaderReportsToLeader ==
    (rtRouter = "workflow" /\ rtCurrentAgent # SupervisorName) =>
        \A i \in 1..Len(rtResults) : rtResults[i] = Routing(SupervisorName, TRUE, "nil")

-----------------------------------------------------------------------------
(* Swarm.handleToolCallsParallel: one goroutine per tool call sends its     *)
(* result into a buffered channel; the collecting loop receives as many     *)
(* results as there are tool calls, or returns when ctx is cancelled.       *)

\* the agent and the history handleToolCallsParallel is called with
ParallelAgent == AgentDyn
ParallelHistory == <<UserMsg, AssistantMsg>>

\* the tool calls of the calls: two tools of the agent and an unknown one
ParallelToolCalls ==
    { ToolCall("c1", NameCalc, ArgsObject),
      ToolCall("c2", NameLook, ArgsEmptyObject),
      ToolCall("c3", NameMiss, ArgsEmptyObject) }

\* toolCallResult{index, result, err}
ToolCallResult(index, result, err) == [index |-> index, result |-> result, err |-> err]

\* what handleToolCallsParallel returns
ParallelReturn(results, msgs, agent, err) ==
    [results |-> results, history |-> msgs, agent |-> agent, err |-> err]

NoParallelReturn == ParallelReturn(<<>>, <<>>, NilAgent, NilErr)

PtInit ==
    /\ ptCalls \in UNION { [1..k -> ParallelToolCalls] : k \in 0..MaxToolCalls }
    /\ ptWorker = [i \in 1..Len(ptCalls) |-> "run"]
    /\ ptChan = <<>>
    /\ ptSent = <<>>
    /\ ptI = 0
    /\ ptUpdatedHistory = ParallelHistory
    /\ ptUpdatedAgent = ParallelAgent
    /\ ptTransferred = FALSE
    /\ ptToolResults = <<>>
    /\ ptCancelled = FALSE
    /\ ptPc = "collect"
    /\ ptRet = NoParallelReturn

PtIdle ==
    /\ ptCalls = <<>>
    /\ ptWorker = <<>>
    /\ ptChan = <<>>
    /\ ptSent = <<>>
    /\ ptI = 0
    /\ ptUpdatedHistory = <<>>
    /\ ptUpdatedAgent = NilAgent
    /\ ptTransferred = FALSE
    /\ ptToolResults = <<>>
    /\ ptCancelled = FALSE
    /\ ptPc = "off"
    /\ ptRet = NoParallelReturn

\* a tool goroutine: s.handleToolCall returns and the result is sent into
\* resultChan, which has room for len(toolCalls) results
PtWorkerSend ==
    /\ \E i \in 1..Len(ptCalls) :
        /\ ptWorker[i] = "run"
        /\ \E result \in (IF CallbackInvoked(ptCalls[i], ParallelAgent)
                          THEN CallbackResults ELSE {NoResult}) :
              ptChan' = Append(ptChan,
                  ToolCallResult(i, HandleToolCall(ptCalls[i], ParallelAgent, result),
                                 HandleToolCallErr(ptCalls[i], ParallelAgent, result)))
        /\ ptSent' = Append(ptSent, i)
        /\ ptWorker' = [ptWorker EXCEPT ![i] = "done"]
    /\ UNCHANGED <<ptCalls, ptI, ptUpdatedHistory, ptUpdatedAgent, ptTransferred,
                   ptToolResults, ptCancelled, ptPc, ptRet>>
    /\ UNCHANGED notPtVars

\* a collecting loop that hands over to the agent of every result
TransferAlways(current, transferred, toolResp) == NextAgent(current, toolResp)

\* updatedAgent after a received result: only the first result that carries
\* an agent replaces the active agent
TransferOnce(current, transferred, toolResp) ==
    IF ~toolResp.Agent.isNil /\ ~transferred THEN toolResp.Agent ELSE current

\* the collecting loop's select takes  result := <-resultChan
PtCollect ==
    /\ ptPc = "collect"
    /\ ptI < Len(ptCalls)
    /\ Len(ptChan) > 0
    /\ ptChan' = Tail(ptChan)
    /\ ptI' = ptI + 1
    /\ LET r == Head(ptChan)
           toolCall == ptCalls[r.index]
       IN  IF ~r.err.isNil
           THEN UNCHANGED <<ptUpdatedHistory, ptUpdatedAgent, ptTransferred, ptToolResults>>
           ELSE /\ ptToolResults' = Append(ptToolResults, MkToolResult(toolCall, r.result))
                /\ ptUpdatedHistory' =
                      Append(ptUpdatedHistory,
                             Msg(RoleFunction, r.result.Messages[1].Content,
                                 toolCall.Name, <<>>))
                /\ ptUpdatedAgent' = TransferOnce(ptUpdatedAgent, ptTransferred, r.result)
                /\ ptTransferred' = (ptTransferred \/ ~r.result.Agent.isNil)
    /\ UNCHANGED <<ptCalls, ptWorker, ptSent, ptCancelled, ptPc, ptRet>>
    /\ UNCHANGED notPtVars

\* the collecting loop's select takes  <-ctx.Done()
PtCollectCancelled ==
    /\ ptPc = "collect"
    /\ ptI < Len(ptCalls)
    /\ ptCancelled
    /\ ptPc' = "returned"
    /\ ptRet' = ParallelReturn(<<>>, ParallelHistory, ParallelAgent,
                               NewError(StrContextCanceled))
    /\ UNCHANGED <<ptCalls, ptWorker, ptChan, ptSent, ptI, ptUpdatedHistory,
                   ptUpdatedAgent, ptTransferred, ptToolResults, ptCancelled>>
    /\ UNCHANGED notPtVars

\* the collecting loop has received len(toolCalls) results
PtReturn ==
    /\ ptPc = "collect"
    /\ ptI = Len(ptCalls)
    /\ ptPc' = "returned"
    /\ ptRet' = ParallelReturn(ptToolResults, ptUpdatedHistory, ptUpdatedAgent, NilErr)
    /\ UNCHANGED <<ptCalls, ptWorker, ptChan, ptSent, ptI, ptUpdatedHistory,
                   ptUpdatedAgent, ptTransferred, ptToolResults, ptCancelled>>
    /\ UNCHANGED notPtVars

\* the caller cancels ctx
PtCancel ==
    /\ ptPc = "collect"
    /\ ~ptCancelled
    /\ ptCancelled' = TRUE
    /\ UNCHANGED <<ptCalls, ptWorker, ptChan, ptSent, ptI, ptUpdatedHistory,
                   ptUpdatedAgent, ptTransferred, ptToolResults, ptPc, ptRet>>
    /\ UNCHANGED notPtVars

NextParallel ==
    \/ PtWorkerSend
    \/ PtCollect
    \/ PtCollectCancelled
    \/ PtReturn
    \/ PtCancel

\* the tool-result messages of the first ptI results, in arrival order
ArrivedMessages ==
    [k \in 1..ptI |-> ptUpdatedHistory[Len(ParallelHistory) + k]]

\* the arrivals, among the first ptI, whose result carries an agent
ArrivedHandoffs ==
    { k \in 1..ptI : ~ptToolResults[k].Result.Agent.isNil }

\* C34: handleToolCallsParallel resolves at most one agent handoff -- the
\* active agent becomes the agent of the first-arriving tool result that
\* carries one and later handoffs are ignored -- and tool-result messages
\* are appended to history in arrival order, under every interleaving of
\* the tool goroutines.
C34_FirstArrivingHandoffWins ==
    /\ Len(ptUpdatedHistory) = Len(ParallelHistory) + ptI
    /\ Len(ptToolResults) = ptI
    /\ \A k \in 1..ptI :
          /\ ptToolResults[k].ToolName = ptCalls[ptSent[k]].Name
          /\ ArrivedMessages[k].Name = ptCalls[ptSent[k]].Name
          /\ ArrivedMessages[k].Content = ptToolResults[k].Result.Data
    /\ ptUpdatedAgent =
          IF ArrivedHandoffs = {} THEN ParallelAgent
          ELSE ptToolResults[CHOOSE k \in ArrivedHandoffs :
                                \A j \in ArrivedHandoffs : k <= j].Result.Agent
    /\ (ptPc = "returned" /\ ptRet.err.isNil) =>
          /\ ptI = Len(ptCalls)
          /\ ptRet.agent = ptUpdatedAgent
          /\ ptRet.history = ptUpdatedHistory

\* two tool calls whose results arrive against the order of emission, both
\* carrying an agent, and the call has returned
C34_Witness ==
    /\ ptPc = "returned"
    /\ ptRet.err.isNil
    /\ ptSent = <<2, 1>>
    /\ Cardinality(ArrivedHandoffs) = 2
    /\ ptToolResults[1].Result.Agent # ptToolResults[2].Result.Agent

\* the loop of Execute can take its next iteration
CanStep == wfPc = "loop" /\ wfCurrentStep < MaxSteps

\* an iteration of Execute's loop, as far as the position of the call and
\* the step counter show it: WfStep is enabled exactly when CanStep holds,
\* every WfStep changes the position or the counter in this way, and no
\* other action changes them while Execute is in its loop
WfIteration ==
    /\ CanStep
    /\ wfPc' \in {"loop", "returned"}
    /\ wfCurrentStep' \in {wfCurrentStep, wfCurrentStep + 1}

\* Execute is in its loop
Executing == wfPc = "loop"

\* Execute has returned
ExecuteReturned == wfPc = "returned"

C38_StopOnCycleExecutesOnce ==
    wfCycleHandling = "StopOnCycle" =>
        \A n \in wfAgents : Executions(n) <= 1

\* the positions of a callback in the callbacks invoked so far
CallbackPositions(name) == { k \in 1..Len(stCbs) : stCbs[k] = name }

\* C40: StreamingResponse returns nil if and only if OnComplete was
\* invoked; OnComplete is invoked at most once and is then the last callback
\* of the call, and OnStart is invoked exactly once before any OnToken,
\* OnToolCall or OnComplete.
C40_CallbackProtocol ==
    LET n == Len(stCbs)
        completes == \E k \in 1..n : stCbs[k] = "OnComplete"
        starts == CallbackPositions("OnStart")
    IN  /\ stPc = "done" => (stErr = "nil" <=> completes)
        /\ \A k \in 1..n : stCbs[k] = "OnComplete" => k = n
        /\ completes => stPc = "done"
        /\ Cardinality(starts) <= 1
        /\ \A k \in 1..n :
              stCbs[k] \in {"OnToken", "OnToolCall", "OnComplete"} =>
                  \E j \in starts : j < k

\* a call that invoked OnStart, OnToken and OnToolCall and then returned
\* nil after OnComplete
C40_Witness ==
    /\ stPc = "done"
    /\ stErr = "nil"
    /\ CallbackPositions("OnToken") # {}
    /\ CallbackPositions("OnToolCall") # {}
    /\ stCbs[Len(stCbs)] = "OnComplete"

-----------------------------------------------------------------------------
(* Specifications *)

\* Swarm.Run on a Swarm made by any constructor
InitRun ==
    /\ RunAnySwarm
    /\ CfgDefault
    /\ GccInit
    /\ RcIdle
    /\ EgIdle
    /\ StIdle
    /\ RtIdle
    /\ RkIdle
    /\ PtIdle
    /\ WfIdle

SpecRun == InitRun /\ [][NextRun]_vars

\* Swarm.getChatCompletion under every configuration
InitGcc ==
    /\ RunInit
    /\ CfgAny
    /\ GccInit
    /\ RcIdle
    /\ EgIdle
    /\ StIdle
    /\ RtIdle
    /\ RkIdle
    /\ PtIdle
    /\ WfIdle

SpecGcc == InitGcc /\ [][NextGcc]_vars

\* ConcurrentSwarm.RunConcurrent over every configs map
InitConc ==
    /\ RunInit
    /\ CfgDefault
    /\ GccInit
    /\ RcInit
    /\ EgIdle
    /\ StIdle
    /\ RtIdle
    /\ RkIdle
    /\ PtIdle
    /\ WfIdle

SpecConc == InitConc /\ [][NextConc]_vars

\* Graph.ExecuteGraph over the generic graphs
InitGraph ==
    /\ RunInit
    /\ CfgDefault
    /\ GccInit
    /\ RcIdle
    /\ EgInit
    /\ StIdle
    /\ RtIdle
    /\ RkIdle
    /\ PtIdle
    /\ WfIdle

SpecGraph == InitGraph /\ [][NextGraph]_vars

\* Swarm.StreamingResponse, both versions
InitStream ==
    /\ RunInit
    /\ CfgDefault
    /\ GccInit
    /\ RcIdle
    /\ EgIdle
    /\ StInit
    /\ RtIdle
    /\ RkIdle
    /\ PtIdle
    /\ WfIdle

SpecStream == InitStream /\ [][NextStream]_vars

\* routers evaluated repeatedly on one state
InitRouter ==
    /\ RunInit
    /\ CfgDefault
    /\ GccInit
    /\ RcIdle
    /\ EgIdle
    /\ StIdle
    /\ RtInit
    /\ RkIdle
    /\ PtIdle
    /\ WfIdle

SpecRouter == InitRouter /\ [][NextRouter]_vars

\* SupervisorAgent.Coordinate called repeatedly
InitRoute ==
    /\ RunInit
    /\ CfgDefault
    /\ GccInit
    /\ RcIdle
    /\ EgIdle
    /\ StIdle
    /\ RtIdle
    /\ RkInit
    /\ PtIdle
    /\ WfIdle

SpecRoute == InitRoute /\ [][NextRoute]_vars

\* ExecuteGraph on the task-management example graph
InitTask ==
    /\ RunInit
    /\ CfgDefault
    /\ GccInit
    /\ RcIdle
    /\ EgInitTask
    /\ StIdle
    /\ RtIdle
    /\ RkIdle
    /\ PtIdle
    /\ WfIdle

SpecTask == InitTask /\ [][NextGraph]_vars

\* ConcurrentSwarm.RunConcurrentOrdered over every ordered list
InitOrdered ==
    /\ RunInit
    /\ CfgDefault
    /\ GccInit
    /\ RcInitOrdered
    /\ EgIdle
    /\ StIdle
    /\ RtIdle
    /\ RkIdle
    /\ PtIdle
    /\ WfIdle

SpecOrdered == InitOrdered /\ [][NextOrdered]_vars

\* Workflow.Execute called twice on one collaborative Workflow
InitWorkflow ==
    /\ RunInit
    /\ CfgDefault
    /\ GccInit
    /\ RcIdle
    /\ EgIdle
    /\ StIdle
    /\ RtIdle
    /\ RkIdle
    /\ PtIdle
    /\ WfInit

SpecWorkflow == InitWorkflow /\ [][NextWorkflow]_vars

\* routeToNextAgent of a SupervisorWorkflow after an agent's step
InitSupervisor ==
    /\ RunInit
    /\ CfgDefault
    /\ GccInit
    /\ RcIdle
    /\ EgIdle
    /\ StIdle
    /\ RtInitSupervisor
    /\ RkIdle
    /\ PtIdle
    /\ WfIdle

SpecSupervisor == InitSupervisor /\ [][NextSupervisor]_vars

\* Swarm.handleToolCallsParallel under every interleaving of the tool goroutines
InitParallel ==
    /\ RunInit
    /\ CfgDefault
    /\ GccInit
    /\ RcIdle
    /\ EgIdle
    /\ StIdle
    /\ RtIdle
    /\ RkIdle
    /\ PtInit
    /\ WfIdle

SpecParallel == InitParallel /\ [][NextParallel]_vars

\* Graph.ExecuteGraph over the generic graphs, the goroutine that runs it being scheduled
SpecGraphFair == InitGraph /\ [][NextGraph]_vars /\ WF_vars(EgStart \/ EgEnter \/ EgProcess)

\* Workflow.Execute, the goroutine that runs its loop being scheduled: weak fairness of the loop's iterations
SpecWorkflowFair == InitWorkflow /\ [][NextWorkflow]_vars /\ WF_<<wfPc, wfCurrentStep>>(WfIteration)

\* Swarm.StreamingResponse, the latest version
InitStreamLatest ==
    /\ RunInit
    /\ CfgDefault
    /\ GccInit
    /\ RcIdle
    /\ EgIdle
    /\ StInitLatest
    /\ RtIdle
    /\ RkIdle
    /\ PtIdle
    /\ WfIdle

SpecStreamLatest == InitStreamLatest /\ [][NextStream]_vars

\* ExecuteGraph called without hooks and again with hooks
InitHooks ==
    /\ RunInit
    /\ CfgDefault
    /\ GccInit
    /\ RcIdle
    /\ EgInitHooks
    /\ StIdle
    /\ RtIdle
    /\ RkIdle
    /\ PtIdle
    /\ WfIdle

SpecHooks == InitHooks /\ [][NextHooks]_vars

=============================================================================
